---- MODULE Spec2Model ----
(***************************************************************************)
(* A model of the PayMe client library (package payment): the validation   *)
(* rules, the error taxonomy, the request/response pipeline (sendRequest   *)
(* and handleErrorResponse), the receipt operations and the composite      *)
(* workflows built on them.                                                *)
(*                                                                         *)
(* One public operation runs at a time.  An operation is started by its    *)
(* own action (validation, request building and the dispatch of its first  *)
(* request happen there) and is continued by the action that delivers the  *)
(* transport's outcome for the request in flight.  Time is counted in      *)
(* seconds since the operation began.                                      *)
(***************************************************************************)
EXTENDS Integers, Sequences, FiniteSets, TLC

VARIABLES
    config,    \* the ClientConfig that was given to NewClient
    client,    \* the Client built by NewClient; no operation writes it
    call,      \* the public operation in progress and its arguments
    ctx,       \* the caller's context: its deadline and its cancellation time
    clock,     \* seconds elapsed since the operation began
    pc,        \* "idle", "inflight", "done" or "panic"
    inflight,  \* the request the transport is working on
    sent,      \* the requests dispatched by the operation, in order
    pipe,      \* what the last sendRequest call returned, and from what
    local,     \* the workflow's local variables
    ret        \* what the operation returned

vars == <<config, client, call, ctx, clock, pc, inflight, sent, pipe, local, ret>>

(***************************************************************************)
(* Bounds of the model.                                                    *)
(***************************************************************************)
MaxBatch == 2

\* The number of callers that use one client at the same time.
MaxCallers == 2

(***************************************************************************)
(* Error codes (src/unnamed/part_000, lines 5-25).                         *)
(***************************************************************************)
InvalidAmountErrorCode == -31611
InvalidParamsErrorCode == -32602
ReceiptNotFoundErrorCode == -31401
ReceiptAlreadyPaidErrorCode == -31402
ReceiptExpiredErrorCode == -31403
CardNotFoundErrorCode == -31400
InvalidFormatTokenErrorCode == -32500
CardNumberNotFoundCode == -31300
CardExpiredCode == -31301
P2PIdenticalCardsErrorCode == -31630
PaycomServiceNotAvailableCode == -31001
ProcessingCenterNotAvailableCode == -31002
PermissionDeniedCode == -32504
ParseErrorCode == -32700
MethodNotFoundCode == -32601
InvalidRequestCode == -32600

(***************************************************************************)
(* Error values.  An error is a base value (a sentinel created by          *)
(* errors.New, or the cause reported by a collaborator) under a stack of   *)
(* fmt.Errorf layers; a layer made with %w keeps the chain that errors.Is  *)
(* follows, a layer made with %v flattens it to text.  Two errors are the  *)
(* same value (Go's ==) iff the records are equal.                         *)
(***************************************************************************)
NoErr == [base |-> "nil", layers |-> <<>>]

Sentinel(name) == [base |-> name, layers |-> <<>>]

Errorf(prefix, verb, err) ==
    [base |-> err.base,
     layers |-> <<[prefix |-> prefix, verb |-> verb]>> \o err.layers]

ErrorsIs(err, target) ==
    /\ err # NoErr
    /\ err.base = target.base
    /\ target.layers = <<>>
    /\ \A i \in DOMAIN err.layers : err.layers[i].verb = "%w"

ErrReceiptNotFound == Sentinel("ErrReceiptNotFound")
ErrReceiptAlreadyPaid == Sentinel("ErrReceiptAlreadyPaid")
ErrReceiptExpired == Sentinel("ErrReceiptExpired")
ErrInvalidAmount == Sentinel("ErrInvalidAmount")
ErrInvalidParams == Sentinel("ErrInvalidParams")
ErrCardNotFound == Sentinel("ErrCardNotFound")
ErrInvalidFormatToken == Sentinel("ErrInvalidFormatToken")
ErrCardNumberNotFound == Sentinel("ErrCardNumberNotFound")
ErrCardExpired == Sentinel("ErrCardExpired")
ErrP2PIdenticalCards == Sentinel("ErrP2PIdenticalCards")
ErrPaycomServiceNotAvailable == Sentinel("ErrPaycomServiceNotAvailable")
ErrProcessingCenterNotAvailable == Sentinel("ErrProcessingCenterNotAvailable")
ErrPermissionDenied == Sentinel("ErrPermissionDenied")
ErrParseError == Sentinel("ErrParseError")
ErrMethodNotFound == Sentinel("ErrMethodNotFound")
ErrInvalidRequest == Sentinel("ErrInvalidRequest")
ErrPaymeError == Sentinel("ErrPaymeError")
ErrTimeout == Sentinel("ErrTimeout")

\* The causes the collaborators report.
DeadlineExceeded == Sentinel("context.DeadlineExceeded")
Canceled == Sentinel("context.Canceled")
ConnError == Sentinel("net.OpError")
ReadError == Sentinel("io.ErrUnexpectedEOF")
SyntaxError == Sentinel("json.SyntaxError")
UnmarshalTypeError == Sentinel("json.UnmarshalTypeError")
UnsupportedTypeError == Sentinel("json.UnsupportedTypeError")
URLParseError == Sentinel("url.Error")

(***************************************************************************)
(* GetErrorCode (src/unnamed/part_000, lines 70-107): compares the error   *)
(* with each sentinel by identity.                                         *)
(***************************************************************************)
GetErrorCode(err) ==
    CASE err = ErrInvalidAmount -> InvalidAmountErrorCode
      [] err = ErrInvalidParams -> InvalidParamsErrorCode
      [] err = ErrReceiptNotFound -> ReceiptNotFoundErrorCode
      [] err = ErrReceiptAlreadyPaid -> ReceiptAlreadyPaidErrorCode
      [] err = ErrReceiptExpired -> ReceiptExpiredErrorCode
      [] err = ErrCardNotFound -> CardNotFoundErrorCode
      [] err = ErrInvalidFormatToken -> InvalidFormatTokenErrorCode
      [] err = ErrCardNumberNotFound -> CardNumberNotFoundCode
      [] err = ErrCardExpired -> CardExpiredCode
      [] err = ErrP2PIdenticalCards -> P2PIdenticalCardsErrorCode
      [] err = ErrPaycomServiceNotAvailable -> PaycomServiceNotAvailableCode
      [] err = ErrProcessingCenterNotAvailable -> ProcessingCenterNotAvailableCode
      [] err = ErrPermissionDenied -> PermissionDeniedCode
      [] err = ErrParseError -> ParseErrorCode
      [] err = ErrMethodNotFound -> MethodNotFoundCode
      [] err = ErrInvalidRequest -> InvalidRequestCode
      [] OTHER -> 0

(***************************************************************************)
(* Amounts.  The checker's integers are 32 bits wide and the amount bound  *)
(* of ValidateAmount is not, so an int64 amount is held as two limbs in    *)
(* base 10^6: the amount is hi * 10^6 + lo with 0 <= lo < 10^6 (hi carries *)
(* the sign).                                                              *)
(***************************************************************************)
LimbBase == 1000 * 1000

Amt(hi, lo) == [hi |-> hi, lo |-> lo]

AmtLeqZero(a) == a.hi < 0 \/ (a.hi = 0 /\ a.lo = 0)

AmtGreater(a, b) == a.hi > b.hi \/ (a.hi = b.hi /\ a.lo > b.lo)

AmtLeq(a, b) == ~AmtGreater(a, b)

(***************************************************************************)
(* Validation rules (src/utils.go, lines 63-91).                           *)
(***************************************************************************)
MaxValidAmount == Amt(999999, 999999)

\* A ValidateAmount whose upper bound is exclusive.
ValidateAmount_ExclusiveBound(amount) ==
    IF AmtLeqZero(amount) THEN ErrInvalidAmount
    ELSE IF AmtGreater(amount, MaxValidAmount) \/ amount = MaxValidAmount
    THEN ErrInvalidAmount
    ELSE NoErr

ValidateAmount(amount) ==
    IF AmtLeqZero(amount) THEN ErrInvalidAmount
    ELSE IF AmtGreater(amount, MaxValidAmount) THEN ErrInvalidAmount
    ELSE NoErr

\* A ValidateCardToken that asks for more than 10 characters.
ValidateCardToken_ExclusiveMinimum(token) ==
    IF token = "" THEN ErrInvalidFormatToken
    ELSE IF Len(token) <= 10 \/ Len(token) > 100 THEN ErrInvalidFormatToken
    ELSE NoErr

ValidateCardToken(token) ==
    IF token = "" THEN ErrInvalidFormatToken
    ELSE IF Len(token) < 10 \/ Len(token) > 100 THEN ErrInvalidFormatToken
    ELSE NoErr

\* A ValidateReceiptID that accepts ids of up to 101 characters.
ValidateReceiptID_LongerMaximum(id) ==
    IF id = "" THEN ErrReceiptNotFound
    ELSE IF Len(id) < 5 \/ Len(id) > 101 THEN ErrReceiptNotFound
    ELSE NoErr

ValidateReceiptID(id) ==
    IF id = "" THEN ErrReceiptNotFound
    ELSE IF Len(id) < 5 \/ Len(id) > 100 THEN ErrReceiptNotFound
    ELSE NoErr

\* A FromSomToTiyin that hands the amount on as it is.
FromSomToTiyin_Unconverted(amount) == amount

\* FromSomToTiyin (src/utils.go, lines 36-38): amount * 100, on the limbs.
FromSomToTiyin(amount) ==
    Amt(amount.hi * 100 + ((amount.lo * 100) \div LimbBase),
        (amount.lo * 100) % LimbBase)

(***************************************************************************)
(* The wire shapes (src/response.go).  A pointer is a record with a nil    *)
(* flag; reading a field through a nil pointer is a run-time panic, which  *)
(* the operations below report as such.                                    *)
(***************************************************************************)
NilReceipt == [nil |-> TRUE, ID |-> "", State |-> 0, Amount |-> Amt(0, 0)]

MkReceipt(id, state, amount) ==
    [nil |-> FALSE, ID |-> id, State |-> state, Amount |-> amount]

\* Response.Result, an interface{} holding whatever JSON the gateway sent.
NilResult == [kind |-> "nil", receipt |-> NilReceipt, items |-> <<>>]

ObjectResult(receipt) == [kind |-> "object", receipt |-> receipt, items |-> <<>>]

StringResult == [kind |-> "string", receipt |-> NilReceipt, items |-> <<>>]

ArrayResult(items) == [kind |-> "array", receipt |-> NilReceipt, items |-> items]

\* Response.Error, a *Error.
NilError == [nil |-> TRUE, Code |-> 0, Message |-> "", Data |-> "", Origin |-> ""]

MkError(code, message) ==
    [nil |-> FALSE, Code |-> code, Message |-> message, Data |-> "", Origin |-> ""]

\* An error that carries the optional data and origin too.
MkErrorDetail(code, message, data, origin) ==
    [nil |-> FALSE, Code |-> code, Message |-> message, Data |-> data, Origin |-> origin]

\* *Response.
NilResponse == [nil |-> TRUE, Result |-> NilResult, Error |-> NilError]

MkResponse(result, error) == [nil |-> FALSE, Result |-> result, Error |-> error]

\* A handleErrorResponse whose switch has no default branch: a code it does
\* not list is no error.
handleErrorResponse_NoDefault(responseJson) ==
    IF responseJson.Error.nil
    THEN [resp |-> responseJson, err |-> NoErr]
    ELSE LET errorCode == responseJson.Error.Code
             paymeError ==
                 CASE errorCode = InvalidAmountErrorCode -> ErrInvalidAmount
                   [] errorCode = InvalidParamsErrorCode -> ErrInvalidParams
                   [] errorCode = CardNotFoundErrorCode -> ErrCardNotFound
                   [] errorCode = InvalidFormatTokenErrorCode -> ErrInvalidFormatToken
                   [] errorCode = CardNumberNotFoundCode -> ErrCardNotFound
                   [] errorCode = CardExpiredCode -> ErrCardExpired
                   [] errorCode = ProcessingCenterNotAvailableCode ->
                          ErrProcessingCenterNotAvailable
                   [] errorCode = PaycomServiceNotAvailableCode ->
                          ErrPaycomServiceNotAvailable
                   [] errorCode = ReceiptNotFoundErrorCode -> ErrReceiptNotFound
                   [] errorCode = ReceiptAlreadyPaidErrorCode -> ErrReceiptAlreadyPaid
                   [] errorCode = ReceiptExpiredErrorCode -> ErrReceiptExpired
                   [] OTHER -> NoErr
         IN  [resp |-> responseJson, err |-> paymeError]

\* A handleErrorResponse that reads the message when it does not list the
\* code.
handleErrorResponse_ByMessage(responseJson) ==
    IF responseJson.Error.nil
    THEN [resp |-> responseJson, err |-> NoErr]
    ELSE LET errorCode == responseJson.Error.Code
             paymeError ==
                 CASE errorCode = InvalidAmountErrorCode -> ErrInvalidAmount
                   [] errorCode = InvalidParamsErrorCode -> ErrInvalidParams
                   [] errorCode = CardNotFoundErrorCode -> ErrCardNotFound
                   [] errorCode = InvalidFormatTokenErrorCode -> ErrInvalidFormatToken
                   [] errorCode = CardNumberNotFoundCode -> ErrCardNotFound
                   [] errorCode = CardExpiredCode -> ErrCardExpired
                   [] errorCode = ProcessingCenterNotAvailableCode ->
                          ErrProcessingCenterNotAvailable
                   [] errorCode = PaycomServiceNotAvailableCode ->
                          ErrPaycomServiceNotAvailable
                   [] errorCode = ReceiptNotFoundErrorCode -> ErrReceiptNotFound
                   [] errorCode = ReceiptAlreadyPaidErrorCode -> ErrReceiptAlreadyPaid
                   [] errorCode = ReceiptExpiredErrorCode -> ErrReceiptExpired
                   [] OTHER -> IF responseJson.Error.Message = "not found"
                               THEN ErrReceiptNotFound
                               ELSE IF errorCode # 0 THEN ErrPaymeError ELSE NoErr
         IN  [resp |-> responseJson, err |-> paymeError]

(***************************************************************************)
(* handleErrorResponse (src/README.md, lines 599-638): the switch over     *)
(* the error code.  Returns the response and the mapped error.             *)
(***************************************************************************)
handleErrorResponse(responseJson) ==
    IF responseJson.Error.nil
    THEN [resp |-> responseJson, err |-> NoErr]
    ELSE LET errorCode == responseJson.Error.Code
             paymeError ==
                 CASE errorCode = InvalidAmountErrorCode -> ErrInvalidAmount
                   [] errorCode = InvalidParamsErrorCode -> ErrInvalidParams
                   [] errorCode = CardNotFoundErrorCode -> ErrCardNotFound
                   [] errorCode = InvalidFormatTokenErrorCode -> ErrInvalidFormatToken
                   [] errorCode = CardNumberNotFoundCode -> ErrCardNotFound
                   [] errorCode = CardExpiredCode -> ErrCardExpired
                   [] errorCode = ProcessingCenterNotAvailableCode ->
                          ErrProcessingCenterNotAvailable
                   [] errorCode = PaycomServiceNotAvailableCode ->
                          ErrPaycomServiceNotAvailable
                   [] errorCode = ReceiptNotFoundErrorCode -> ErrReceiptNotFound
                   [] errorCode = ReceiptAlreadyPaidErrorCode -> ErrReceiptAlreadyPaid
                   [] errorCode = ReceiptExpiredErrorCode -> ErrReceiptExpired
                   [] OTHER -> IF errorCode # 0 THEN ErrPaymeError ELSE NoErr
         IN  [resp |-> responseJson, err |-> paymeError]

(***************************************************************************)
(* NewClient (src/README.md, lines 452-493): the defaults it fills in.     *)
(* Durations are in seconds; the zero duration means "not set".            *)
(***************************************************************************)
DefaultTimeout == 30

TestEndpoint == "https://checkout.test.paycom.uz/api"

ProductionEndpoint == "https://checkout.paycom.uz/api"

getXAuthHeaders(paymeID, paymeKey) == [paymeID |-> paymeID, paymeKey |-> paymeKey]

NewClient(cfg) ==
    LET timeout == IF cfg.Timeout = 0 THEN DefaultTimeout ELSE cfg.Timeout
        requisite == IF cfg.RequisiteName = "" THEN "id" ELSE cfg.RequisiteName
        baseURL == IF cfg.BaseURL = ""
                   THEN (IF cfg.IsTestMode THEN TestEndpoint ELSE ProductionEndpoint)
                   ELSE cfg.BaseURL
        httpTimeout == IF cfg.HTTPClientTimeout = 0 THEN timeout
                       ELSE cfg.HTTPClientTimeout
    IN  [Headers |-> getXAuthHeaders(cfg.PaymeID, cfg.PaymeKey),
         BaseURL |-> baseURL,
         HTTPClientTimeout |-> httpTimeout,
         Timeout |-> timeout,
         IsTestMode |-> cfg.IsTestMode,
         RequisiteName |-> requisite]

(***************************************************************************)
(* The caller's context and the transport.                                 *)
(*                                                                         *)
(* A context is the set of times at which its deadline passes (empty: no   *)
(* deadline) and the set of times at which its owner cancels it (empty:    *)
(* never).  context.WithTimeout adds now + timeout to the deadlines.       *)
(* The transport either answers or fails after some latency; whichever of  *)
(* the answer, a deadline and the cancellation comes first decides what    *)
(* HTTPClient.Do returns (events at the same instant race).                *)
(***************************************************************************)
Background == [deadline |-> {}, cancelAt |-> {}]

\* A WithTimeout that starts from context.Background(), not from the caller.
WithTimeout_FromBackground(parent, now, timeout) ==
    [deadline |-> {now + timeout}, cancelAt |-> {}]

WithTimeout(parent, now, timeout) ==
    [deadline |-> parent.deadline \cup {now + timeout}, cancelAt |-> parent.cancelAt]

InvalidURL == "://bad"

\* http.NewRequestWithContext fails when the URL does not parse.
URLParses(url) == url # InvalidURL

\* How HTTPClient.Do ends for a request dispatched at time now under
\* context c and the client's own timeout t, when the transport would answer
\* (or fail) after lat seconds: the finish time and the error, if any.
DoOutcomes(c, now, t, lat, fails) ==
    LET deadlines == c.deadline \cup {now + t}
        done == now + lat
        events == deadlines \cup c.cancelAt \cup {done}
        first == CHOOSE e \in events : \A f \in events : e <= f
        wrap(cause) == Errorf("Post", "%w", cause)
    IN  (IF first = done
         THEN {[at |-> first, err |-> IF fails THEN wrap(ConnError) ELSE NoErr]}
         ELSE {})
        \cup
        (IF first \in deadlines
         THEN {[at |-> first, err |-> wrap(DeadlineExceeded)]}
         ELSE {})
        \cup
        (IF first \in c.cancelAt
         THEN {[at |-> first, err |-> wrap(Canceled)]}
         ELSE {})

(***************************************************************************)
(* sendRequest (src/README.md, lines 518-594), in two halves: up to the    *)
(* dispatch, and from the return of HTTPClient.Do.                         *)
(***************************************************************************)
NoRequest ==
    [method |-> "", requestID |-> "", params |-> <<>>, xAuth |-> "", url |-> "",
     ctx |-> Background, at |-> 0]

\* A sendRequest that sends the id with the key whatever useIdOnlyAuth says.
sendRequestBuild_AlwaysKey(c, callerCtx, now, requestID, method, params, marshals, withID, timeout) ==
    LET requestTimeout == IF Len(timeout) > 0 THEN timeout[1] ELSE c.Timeout
        reqCtx == WithTimeout(callerCtx, now, requestTimeout)
    IN  IF ~marshals
        THEN [err |-> Errorf("json marshal error", "%w", UnsupportedTypeError),
              req |-> NoRequest]
        ELSE IF ~URLParses(c.BaseURL)
        THEN [err |-> Errorf("request creation error", "%w", URLParseError),
              req |-> NoRequest]
        ELSE [err |-> NoErr,
              req |-> [method |-> method,
                       requestID |-> requestID,
                       params |-> params,
                       xAuth |-> c.Headers.paymeID \o ":" \o c.Headers.paymeKey,
                       url |-> c.BaseURL,
                       ctx |-> reqCtx,
                       at |-> now]]

\* Lines 525-560.  timeout is the sequence of the variadic argument.
sendRequestBuild(c, callerCtx, now, requestID, method, params, marshals, withID, timeout) ==
    LET requestTimeout == IF Len(timeout) > 0 THEN timeout[1] ELSE c.Timeout
        reqCtx == WithTimeout(callerCtx, now, requestTimeout)
    IN  IF ~marshals
        THEN [err |-> Errorf("json marshal error", "%w", UnsupportedTypeError),
              req |-> NoRequest]
        ELSE IF ~URLParses(c.BaseURL)
        THEN [err |-> Errorf("request creation error", "%w", URLParseError),
              req |-> NoRequest]
        ELSE [err |-> NoErr,
              req |-> [method |-> method,
                       requestID |-> requestID,
                       params |-> params,
                       xAuth |-> IF withID THEN c.Headers.paymeID
                                 ELSE c.Headers.paymeID \o ":" \o c.Headers.paymeKey,
                       url |-> c.BaseURL,
                       ctx |-> reqCtx,
                       at |-> now]]

\* A sendRequest that does not single out the deadline.
sendRequestFinish_NoTimeoutCheck(do) ==
    IF do.err # NoErr
    THEN [resp |-> NilResponse, err |-> Errorf("http request error", "%w", do.err)]
    ELSE IF ~do.answer.readable
    THEN [resp |-> NilResponse, err |-> Errorf("response body read error", "%w", ReadError)]
    ELSE IF ~do.answer.decodes
    THEN [resp |-> NilResponse, err |-> Errorf("json unmarshal error", "%w", SyntaxError)]
    ELSE handleErrorResponse(do.answer.envelope)

\* A sendRequest that treats an HTTP status of 400 or more as a failure.
sendRequestFinish_StatusCheck(do) ==
    IF do.err # NoErr
    THEN IF ErrorsIs(do.err, DeadlineExceeded)
         THEN [resp |-> NilResponse, err |-> ErrTimeout]
         ELSE [resp |-> NilResponse, err |-> Errorf("http request error", "%w", do.err)]
    ELSE IF do.answer.status >= 400
    THEN [resp |-> NilResponse, err |-> ErrPaymeError]
    ELSE IF ~do.answer.readable
    THEN [resp |-> NilResponse, err |-> Errorf("response body read error", "%w", ReadError)]
    ELSE IF ~do.answer.decodes
    THEN [resp |-> NilResponse, err |-> Errorf("json unmarshal error", "%w", SyntaxError)]
    ELSE handleErrorResponse(do.answer.envelope)

\* Lines 563-593.  do is an outcome of HTTPClient.Do; the answer it carries
\* when it has no error is [status, readable, decodes, envelope].
sendRequestFinish(do) ==
    IF do.err # NoErr
    THEN IF ErrorsIs(do.err, DeadlineExceeded)
         THEN [resp |-> NilResponse, err |-> ErrTimeout]
         ELSE [resp |-> NilResponse, err |-> Errorf("http request error", "%w", do.err)]
    ELSE IF ~do.answer.readable
    THEN [resp |-> NilResponse, err |-> Errorf("response body read error", "%w", ReadError)]
    ELSE IF ~do.answer.decodes
    THEN [resp |-> NilResponse, err |-> Errorf("json unmarshal error", "%w", SyntaxError)]
    ELSE handleErrorResponse(do.answer.envelope)

(***************************************************************************)
(* The typed responses (src/response.go, lines 160-204) and what an        *)
(* operation hands back to its caller.                                     *)
(***************************************************************************)
\* A nil *XxxReceiptResponse / *GetAllReceiptsResponse.
NilTyped == [nil |-> TRUE, Receipt |-> NilReceipt, Receipts |-> <<>>]

MkTyped(receipt, receipts) == [nil |-> FALSE, Receipt |-> receipt, Receipts |-> receipts]

\* json.Unmarshal of the marshalled result into a struct with one field,
\* Receipt *Receipt `json:"receipt"`: only a JSON object decodes.
UnmarshalReceiptResponse(result) ==
    IF result.kind = "object"
    THEN [err |-> NoErr, value |-> MkTyped(result.receipt, <<>>)]
    ELSE [err |-> UnmarshalTypeError, value |-> MkTyped(NilReceipt, <<>>)]

\* json.Unmarshal of the marshalled result into []*Receipt: only a JSON
\* array decodes (a null element becomes a nil pointer).
UnmarshalReceipts(result) ==
    IF result.kind = "array"
    THEN [err |-> NoErr, value |-> MkTyped(NilReceipt, result.items)]
    ELSE [err |-> UnmarshalTypeError, value |-> MkTyped(NilReceipt, <<>>)]

\* The values an operation returns: the typed response, or the id, state,
\* flag or id list of the helpers, with the error.
Ret(resp, err) ==
    [resp |-> resp, id |-> "", state |-> 0, flag |-> FALSE, ids |-> <<>>, err |-> err]

NoRet == Ret(NilTyped, NoErr)

\* What the last call of sendRequest returned; called is FALSE while the
\* operation has not reached sendRequest, dispatched tells whether the call
\* got as far as HTTPClient.Do.
NoAnswer == [status |-> 0, readable |-> FALSE, decodes |-> FALSE, envelope |-> NilResponse]

NoDo == [at |-> 0, err |-> NoErr, answer |-> NoAnswer]

NoPipe == [called |-> FALSE, dispatched |-> FALSE, req |-> NoRequest, do |-> NoDo,
           resp |-> NilResponse, err |-> NoErr]

BuildFailed(err) ==
    [called |-> TRUE, dispatched |-> FALSE, req |-> NoRequest, do |-> NoDo,
     resp |-> NilResponse, err |-> err]

Piped(req, do, r) ==
    [called |-> TRUE, dispatched |-> TRUE, req |-> req, do |-> do,
     resp |-> r.resp, err |-> r.err]

\* What a stretch of an operation's code ends with: it returns, it panics,
\* or it has dispatched a request and waits for HTTPClient.Do.
ReturnStep(r, p, l) == [kind |-> "return", ret |-> r, req |-> NoRequest, pipe |-> p, local |-> l]

PanicStep(p, l) == [kind |-> "panic", ret |-> NoRet, req |-> NoRequest, pipe |-> p, local |-> l]

DispatchStep(req, p, l) == [kind |-> "dispatch", ret |-> NoRet, req |-> req, pipe |-> p, local |-> l]

\* The local variables of the workflows: createResp and err of
\* CreateAndPayReceipt, createdReceiptsID of CreateAndPayMerchantReceipt, the
\* loop index and receiptIDs of the batch helpers.
NoLocal == [createResp |-> NilTyped, err |-> NoErr, createdID |-> "", i |-> 0, ids |-> <<>>]

\* GenerateRequestID (src/utils.go, lines 96-98): the prefix and the time.
GenerateRequestID(prefix, now) == <<prefix, now>>

Params(id, token, amount, account) ==
    [id |-> id, token |-> token, amount |-> amount, account |-> account]

NoAmount == Amt(0, 0)

(***************************************************************************)
(* The receipt operations (src/README.md, lines 643-905).  Each XxxBegin   *)
(* is the operation up to its call of sendRequest being dispatched;        *)
(* ReceiptEnd is the code after sendRequest returned, the same in every    *)
(* one of them but GetAllReceipts.                                         *)
(***************************************************************************)
\* The call of sendRequest with useIdOnlyAuth = false and no timeout override
\* that every operation makes, up to the dispatch.
SendBegin(c, cx, now, p, l, prefix, method, params, marshals) ==
    LET b == sendRequestBuild(c, cx, now, GenerateRequestID(prefix, now), method,
                              params, marshals, FALSE, <<>>)
    IN  IF b.err # NoErr
        THEN ReturnStep(Ret(NilTyped, b.err), BuildFailed(b.err), l)
        ELSE DispatchStep(b.req, p, l)

CreateReceiptBegin(c, cx, now, p, l, amount, marshals) ==
    IF ValidateAmount(amount) # NoErr
    THEN ReturnStep(Ret(NilTyped, ValidateAmount(amount)), p, l)
    ELSE SendBegin(c, cx, now, p, l, "ReceiptsCreate", "receipts.create",
                   Params("", "", amount, <<>>), marshals)

\* A PayReceipt that does not validate the token.
PayReceiptBegin_NoTokenCheck(c, cx, now, p, l, receiptID, token) ==
    IF ValidateReceiptID(receiptID) # NoErr
    THEN ReturnStep(Ret(NilTyped, ValidateReceiptID(receiptID)), p, l)
    ELSE SendBegin(c, cx, now, p, l, "ReceiptsPay", "receipts.pay",
                   Params(receiptID, token, NoAmount, <<>>), TRUE)

PayReceiptBegin(c, cx, now, p, l, receiptID, token) ==
    IF ValidateReceiptID(receiptID) # NoErr
    THEN ReturnStep(Ret(NilTyped, ValidateReceiptID(receiptID)), p, l)
    ELSE IF ValidateCardToken(token) # NoErr
    THEN ReturnStep(Ret(NilTyped, ValidateCardToken(token)), p, l)
    ELSE SendBegin(c, cx, now, p, l, "ReceiptsPay", "receipts.pay",
                   Params(receiptID, token, NoAmount, <<>>), TRUE)

\* SendReceipt, CancelReceipt, CheckReceipt and GetReceipt differ in the
\* request-id prefix and the method only.
IDReceiptBegin(c, cx, now, p, l, prefix, method, receiptID) ==
    IF ValidateReceiptID(receiptID) # NoErr
    THEN ReturnStep(Ret(NilTyped, ValidateReceiptID(receiptID)), p, l)
    ELSE SendBegin(c, cx, now, p, l, prefix, method,
                   Params(receiptID, "", NoAmount, <<>>), TRUE)

SendReceiptBegin(c, cx, now, p, l, receiptID) ==
    IDReceiptBegin(c, cx, now, p, l, "ReceiptsSend", "receipts.send", receiptID)

CancelReceiptBegin(c, cx, now, p, l, receiptID) ==
    IDReceiptBegin(c, cx, now, p, l, "ReceiptsCancel", "receipts.cancel", receiptID)

CheckReceiptBegin(c, cx, now, p, l, receiptID) ==
    IDReceiptBegin(c, cx, now, p, l, "ReceiptsCheck", "receipts.check", receiptID)

GetReceiptBegin(c, cx, now, p, l, receiptID) ==
    IDReceiptBegin(c, cx, now, p, l, "ReceiptsGet", "receipts.get", receiptID)

SetFiscalDataBegin(c, cx, now, p, l, receiptID, marshals) ==
    IF ValidateReceiptID(receiptID) # NoErr
    THEN ReturnStep(Ret(NilTyped, ValidateReceiptID(receiptID)), p, l)
    ELSE SendBegin(c, cx, now, p, l, "ReceiptsSetFiscalData", "receipts.set_fiscal_data",
                   Params(receiptID, "", NoAmount, <<>>), marshals)

GetAllReceiptsBegin(c, cx, now, p, l) ==
    SendBegin(c, cx, now, p, l, "ReceiptsGetAll", "receipts.get_all",
              Params("", "", NoAmount, <<>>), TRUE)

\* A receipt operation that wraps the error of sendRequest in a layer of its
\* own.
ReceiptEnd_WrapsPipelineError(p) ==
    IF p.err # NoErr THEN Ret(NilTyped, Errorf("send request error", "%w", p.err))
    ELSE IF p.resp.Result.kind # "nil"
    THEN LET u == UnmarshalReceiptResponse(p.resp.Result)
         IN  IF u.err # NoErr
             THEN Ret(NilTyped, Errorf("result unmarshal error", "%w", u.err))
             ELSE Ret(u.value, NoErr)
    ELSE Ret(MkTyped(NilReceipt, <<>>), NoErr)

\* A receipt operation that reports a success without a result as an error.
ReceiptEnd_AbsentResultIsError(p) ==
    IF p.err # NoErr THEN Ret(NilTyped, p.err)
    ELSE IF p.resp.Result.kind # "nil"
    THEN LET u == UnmarshalReceiptResponse(p.resp.Result)
         IN  IF u.err # NoErr
             THEN Ret(NilTyped, Errorf("result unmarshal error", "%w", u.err))
             ELSE Ret(u.value, NoErr)
    ELSE Ret(NilTyped, ErrPaymeError)

\* After sendRequest: p is what it returned.
ReceiptEnd(p) ==
    IF p.err # NoErr THEN Ret(NilTyped, p.err)
    ELSE IF p.resp.Result.kind # "nil"
    THEN LET u == UnmarshalReceiptResponse(p.resp.Result)
         IN  IF u.err # NoErr
             THEN Ret(NilTyped, Errorf("result unmarshal error", "%w", u.err))
             ELSE Ret(u.value, NoErr)
    ELSE Ret(MkTyped(NilReceipt, <<>>), NoErr)

GetAllReceiptsEnd(p) ==
    IF p.err # NoErr THEN Ret(NilTyped, p.err)
    ELSE IF p.resp.Result.kind # "nil"
    THEN LET u == UnmarshalReceipts(p.resp.Result)
         IN  IF u.err # NoErr
             THEN Ret(NilTyped, Errorf("result unmarshal error", "%w", u.err))
             ELSE Ret(u.value, NoErr)
    ELSE Ret(MkTyped(NilReceipt, <<>>), NoErr)

(***************************************************************************)
(* CreateAndPayReceipt (src/README.md, lines 912-926).                     *)
(***************************************************************************)
\* Lines 914-917 with what CreateReceipt returned.
CreateAndPayReceiptCreated(r, p, l) ==
    ReturnStep(Ret(NilTyped, Errorf("create receipt error", "%w", r.err)), p,
               [l EXCEPT !.err = r.err])

\* A pay step that hands back the created receipt with the error.
CreateAndPayReceiptPaid_KeepsCreated(r, p, l) ==
    IF r.err # NoErr
    THEN ReturnStep(Ret(l.createResp, Errorf("pay receipt error", "%w", r.err)), p,
                    [l EXCEPT !.err = r.err])
    ELSE ReturnStep(Ret(r.resp, NoErr), p, [l EXCEPT !.err = NoErr])

\* Lines 920-925 with what PayReceipt returned.
CreateAndPayReceiptPaid(r, p, l) ==
    IF r.err # NoErr
    THEN ReturnStep(Ret(NilTyped, Errorf("pay receipt error", "%w", r.err)), p,
                    [l EXCEPT !.err = r.err])
    ELSE ReturnStep(Ret(r.resp, NoErr), p, [l EXCEPT !.err = NoErr])

\* Line 920: the call of PayReceipt with the id of the created receipt.
CreateAndPayReceiptPay(c, cx, now, p, l, createResp, token) ==
    IF createResp.Receipt.nil
    THEN PanicStep(p, [l EXCEPT !.createResp = createResp])
    ELSE LET l2 == [l EXCEPT !.createResp = createResp]
             st == PayReceiptBegin(c, cx, now, p, l2, createResp.Receipt.ID, token)
         IN  IF st.kind = "return"
             THEN CreateAndPayReceiptPaid(st.ret, st.pipe, l2)
             ELSE st

CreateAndPayReceiptBegin(c, cx, now, p, l, amount, marshals, token) ==
    LET st == CreateReceiptBegin(c, cx, now, p, l, amount, marshals)
    IN  IF st.kind = "return"
        THEN CreateAndPayReceiptCreated(st.ret, st.pipe, l)
        ELSE st

CreateAndPayReceiptContinue(c, cx, now, p, l, method, token) ==
    LET r == ReceiptEnd(p)
    IN  IF method = "receipts.create"
        THEN IF r.err # NoErr
             THEN CreateAndPayReceiptCreated(r, p, l)
             ELSE CreateAndPayReceiptPay(c, cx, now, p, l, r.resp, token)
        ELSE CreateAndPayReceiptPaid(r, p, l)

(***************************************************************************)
(* The merchant operations (src/receipts.go, lines 21-108).  They return   *)
(* the receipt id as a string.                                             *)
(***************************************************************************)
IDRet(id, err) == [Ret(NilTyped, err) EXCEPT !.id = id]

\* Lines 22-39: no validation; the account key is the client's RequisiteName.
CreateMerchantReceiptBegin(c, cx, now, p, l, data) ==
    LET requestID == <<"ReceiptsCreate:MerchantTransaction", data.OrderID>>
        amountInTiyin == FromSomToTiyin(data.Amount)
        account == [key |-> c.RequisiteName, value |-> data.OrderID,
                    card_id |-> data.CardID, reason |-> "6"]
        b == sendRequestBuild(c, cx, now, requestID, "receipts.create",
                              Params("", "", amountInTiyin, account), TRUE, FALSE, <<>>)
    IN  IF b.err # NoErr
        THEN ReturnStep(IDRet("", Errorf("failed receipts create", "%v", b.err)),
                        BuildFailed(b.err), l)
        ELSE DispatchStep(b.req, p, l)

\* Lines 37-55, with what sendRequest returned.
CreateMerchantReceiptEnd(p, l) ==
    IF p.err # NoErr
    THEN ReturnStep(IDRet("", Errorf("failed receipts create", "%v", p.err)), p, l)
    ELSE LET u == IF p.resp.Result.kind # "nil"
                  THEN UnmarshalReceiptResponse(p.resp.Result)
                  ELSE [err |-> NoErr, value |-> MkTyped(NilReceipt, <<>>)]
         IN  IF u.err # NoErr
             THEN ReturnStep(IDRet("", Errorf("result unmarshal error", "%w", u.err)), p, l)
             ELSE IF u.value.Receipt.nil
             THEN PanicStep(p, l)
             ELSE ReturnStep(IDRet(u.value.Receipt.ID, NoErr), p, l)

\* Lines 71-89.  The error branch formats resp.Error, which dereferences resp.
PayMerchantReceiptEnd(p, l) ==
    IF p.err # NoErr
    THEN IF p.resp.nil
         THEN PanicStep(p, l)
         ELSE ReturnStep(IDRet("", Errorf("failed receipts pay", "%v", p.err)), p, l)
    ELSE LET u == IF p.resp.Result.kind # "nil"
                  THEN UnmarshalReceiptResponse(p.resp.Result)
                  ELSE [err |-> NoErr, value |-> MkTyped(NilReceipt, <<>>)]
         IN  IF u.err # NoErr
             THEN ReturnStep(IDRet("", Errorf("result unmarshal error", "%w", u.err)), p, l)
             ELSE IF u.value.Receipt.nil
             THEN PanicStep(p, l)
             ELSE ReturnStep(IDRet(u.value.Receipt.ID, NoErr), p, l)

\* Lines 63-70.
PayMerchantReceiptBegin(c, cx, now, p, l, data, createdReceiptsID) ==
    LET requestID == <<"ReceiptsPay", data.OrderID>>
        b == sendRequestBuild(c, cx, now, requestID, "receipts.pay",
                              Params(createdReceiptsID, data.Token, NoAmount, <<>>),
                              TRUE, FALSE, <<>>)
    IN  IF b.err # NoErr
        THEN PayMerchantReceiptEnd(BuildFailed(b.err), l)
        ELSE DispatchStep(b.req, p, l)

\* A workflow that goes on to pay whatever CreateMerchantReceipt returned.
CreateAndPayMerchantReceiptContinue_PaysAnyway(c, cx, now, p, l, method, data) ==
    IF method = "receipts.create"
    THEN LET st == CreateMerchantReceiptEnd(p, l)
         IN  IF st.kind = "return"
             THEN PayMerchantReceiptBegin(c, cx, now, p,
                                          [l EXCEPT !.createdID = st.ret.id],
                                          data, st.ret.id)
             ELSE st
    ELSE PayMerchantReceiptEnd(p, l)

\* Lines 95-108.
CreateAndPayMerchantReceiptContinue(c, cx, now, p, l, method, data) ==
    IF method = "receipts.create"
    THEN LET st == CreateMerchantReceiptEnd(p, l)
         IN  IF st.kind = "return" /\ st.ret.err = NoErr
             THEN PayMerchantReceiptBegin(c, cx, now, p,
                                          [l EXCEPT !.createdID = st.ret.id],
                                          data, st.ret.id)
             ELSE st
    ELSE PayMerchantReceiptEnd(p, l)

(***************************************************************************)
(* The status helpers (src/receipts.go, lines 113-156).                    *)
(***************************************************************************)
StateRet(state, err) == [Ret(NilTyped, err) EXCEPT !.state = state]

FlagRet(flag, err) == [Ret(NilTyped, err) EXCEPT !.flag = flag]

\* GetReceiptStatus with what CheckReceipt returned.
GetReceiptStatusEnd(r, p, l) ==
    IF r.err # NoErr THEN ReturnStep(StateRet(-1, r.err), p, l)
    ELSE IF r.resp.Receipt.nil THEN PanicStep(p, l)
    ELSE ReturnStep(StateRet(r.resp.Receipt.State, NoErr), p, l)

\* IsReceiptPaid, IsReceiptCanceled, IsReceiptExpired with what
\* GetReceiptStatus did; want is 1, -1 or -2.
IsReceiptEnd(st, want) ==
    IF st.kind = "panic" THEN st
    ELSE IF st.ret.err # NoErr THEN [st EXCEPT !.ret = FlagRet(FALSE, st.ret.err)]
    ELSE [st EXCEPT !.ret = FlagRet(st.ret.state = want, NoErr)]

WantedState(name) ==
    CASE name = "IsReceiptPaid" -> 1
      [] name = "IsReceiptCanceled" -> -1
      [] name = "IsReceiptExpired" -> -2

(***************************************************************************)
(* The batch helpers (src/receipts.go, lines 161-204).                     *)
(***************************************************************************)
IDsRet(ids, err) == [Ret(NilTyped, err) EXCEPT !.ids = ids]

\* The loop of CreateMultipleReceipts from item i on, up to the next
\* dispatch.  An item is [isInt64, amount, isMap, marshals].
RECURSIVE CreateMultipleReceiptsFrom(_, _, _, _, _, _, _)
CreateMultipleReceiptsFrom(c, cx, now, p, l, receipts, i) ==
    IF i > Len(receipts)
    THEN ReturnStep(IDsRet(l.ids, NoErr), p, [l EXCEPT !.i = i])
    ELSE IF ~receipts[i].isInt64 \/ ~receipts[i].isMap
    THEN CreateMultipleReceiptsFrom(c, cx, now, p, l, receipts, i + 1)
    ELSE LET st == CreateReceiptBegin(c, cx, now, p, [l EXCEPT !.i = i],
                                      receipts[i].amount, receipts[i].marshals)
         IN  IF st.kind = "return"
             THEN CreateMultipleReceiptsFrom(c, cx, now, st.pipe, l, receipts, i + 1)
             ELSE st

\* Lines 178-184, with the outcome of the CreateReceipt of item l.i.
CreateMultipleReceiptsContinue(c, cx, now, p, l, receipts) ==
    LET r == ReceiptEnd(p)
    IN  IF r.err # NoErr
        THEN CreateMultipleReceiptsFrom(c, cx, now, p, l, receipts, l.i + 1)
        ELSE IF r.resp.Receipt.nil
        THEN PanicStep(p, l)
        ELSE CreateMultipleReceiptsFrom(c, cx, now, p,
                 [l EXCEPT !.ids = Append(l.ids, r.resp.Receipt.ID)], receipts, l.i + 1)

\* The loop of CancelMultipleReceipts from id i on; the error of an item is
\* logged and dropped.
RECURSIVE CancelMultipleReceiptsFrom(_, _, _, _, _, _, _)
CancelMultipleReceiptsFrom(c, cx, now, p, l, receiptIDs, i) ==
    IF i > Len(receiptIDs)
    THEN ReturnStep(Ret(NilTyped, NoErr), p, [l EXCEPT !.i = i])
    ELSE LET st == CancelReceiptBegin(c, cx, now, p, [l EXCEPT !.i = i], receiptIDs[i])
         IN  IF st.kind = "return"
             THEN CancelMultipleReceiptsFrom(c, cx, now, st.pipe, l, receiptIDs, i + 1)
             ELSE st

(***************************************************************************)
(* The filters (src/receipts.go, lines 220-264).                           *)
(***************************************************************************)
\* The loop over resp.Receipts reads receipt.State of every element.
GetReceiptsByStateEnd(r, p, l, state) ==
    LET keep(receipt) == receipt.State = state
    IN  IF r.err # NoErr THEN ReturnStep(Ret(NilTyped, r.err), p, l)
        ELSE IF \E k \in DOMAIN r.resp.Receipts : r.resp.Receipts[k].nil
        THEN PanicStep(p, l)
        ELSE ReturnStep(Ret(MkTyped(NilReceipt, SelectSeq(r.resp.Receipts, keep)), NoErr), p, l)

\* The loop over resp.Receipts reads receipt.Amount of every element.
GetReceiptsByAmountRangeEnd(r, p, l, minAmount, maxAmount) ==
    LET keep(receipt) == /\ AmtLeq(minAmount, receipt.Amount)
                         /\ AmtLeq(receipt.Amount, maxAmount)
    IN  IF r.err # NoErr THEN ReturnStep(Ret(NilTyped, r.err), p, l)
        ELSE IF \E k \in DOMAIN r.resp.Receipts : r.resp.Receipts[k].nil
        THEN PanicStep(p, l)
        ELSE ReturnStep(Ret(MkTyped(NilReceipt, SelectSeq(r.resp.Receipts, keep)), NoErr), p, l)

(***************************************************************************)
(* The inputs the model draws from.                                        *)
(***************************************************************************)
ID100 == "receipt-012345678901234567890123456789012345678901234567890123456789012345678901234567890123456789ab"

ID101 == ID100 \o "c"

Token100 == "token-012345678901234567890123456789012345678901234567890123456789012345678901234567890123456789abcd"

Token101 == Token100 \o "e"

\* -1000000, -1, 0, 1, 10000, 1000000, 999999999999 and 1000000000000.
Amounts ==
    {Amt(-1, 0), Amt(-1, 999999), Amt(0, 0), Amt(0, 1), Amt(0, 10000), Amt(1, 0),
     MaxValidAmount, Amt(1000000, 0)}

ReceiptIDs == {"", "rcpt", "rcpt1", "r-missing", ID100, ID101}

Tokens == {"", "tok9chars", "0123456789", Token100, Token101}

BaseConfig ==
    [PaymeID |-> "merchant-id", PaymeKey |-> "merchant-key", IsTestMode |-> FALSE,
     RequisiteName |-> "", BaseURL |-> "", Timeout |-> 0, HTTPClientTimeout |-> 0]

Configs ==
    {BaseConfig,
     [BaseConfig EXCEPT !.Timeout = 10, !.IsTestMode = TRUE, !.RequisiteName = "order_id",
                        !.PaymeID = "merchant-2", !.PaymeKey = "key-2"],
     [BaseConfig EXCEPT !.BaseURL = InvalidURL]}

\* A caller that sets no bound, one whose own deadline is 5 seconds away and
\* one who cancels after 5 seconds.
CallerContexts ==
    {Background, [deadline |-> {5}, cancelAt |-> {}], [deadline |-> {}, cancelAt |-> {5}]}

\* The transport answers (or fails) at once, exactly when the default timeout
\* elapses, or after it.
Latencies == {1, 30, 31}

HTTPStatuses == {200, 500}

TableCodes ==
    {InvalidAmountErrorCode, InvalidParamsErrorCode, ReceiptNotFoundErrorCode,
     ReceiptAlreadyPaidErrorCode, ReceiptExpiredErrorCode, CardNotFoundErrorCode,
     InvalidFormatTokenErrorCode, CardNumberNotFoundCode, CardExpiredCode,
     P2PIdenticalCardsErrorCode, PaycomServiceNotAvailableCode,
     ProcessingCenterNotAvailableCode, PermissionDeniedCode, ParseErrorCode,
     MethodNotFoundCode, InvalidRequestCode}

\* The codes a gateway answer may carry: the table, zero, and two others.
Codes == TableCodes \cup {0, -1, 12345}

ReceiptStates == {0, 1, -1, -2}

GatewayReceipts ==
    {MkReceipt("receipt-0001", st, Amt(0, 10000)) : st \in ReceiptStates}
    \cup {MkReceipt("r1", 0, Amt(0, 10000))}

ListItems ==
    {NilReceipt, MkReceipt("receipt-0001", 0, Amt(0, 10000)),
     MkReceipt("receipt-0002", 1, Amt(0, 500))}

SeqsUpTo(S, n) == UNION {[1..k -> S] : k \in 0..n}

Results ==
    {NilResult, StringResult, ObjectResult(NilReceipt)}
    \cup {ObjectResult(r) : r \in GatewayReceipts}
    \cup {ArrayResult(items) : items \in SeqsUpTo(ListItems, MaxBatch)}

Envelopes ==
    {MkResponse(r, NilError) : r \in Results}
    \cup {MkResponse(NilResult, MkError(code, "gateway message")) : code \in Codes}
    \cup {MkResponse(ObjectResult(MkReceipt("receipt-0001", 0, Amt(0, 10000))),
                     MkError(code, "")) : code \in {0, ReceiptAlreadyPaidErrorCode}}
    \cup {MkResponse(NilResult, MkErrorDetail(code, "not found", "receipt", "receipts.check")) :
            code \in {12345, ReceiptExpiredErrorCode}}

\* Every envelope under status 200; under status 500 the envelopes whose
\* result is absent or an object; a body that cannot be read, or is not JSON,
\* under both.
Answers ==
    {[status |-> 200, readable |-> TRUE, decodes |-> TRUE, envelope |-> e] : e \in Envelopes}
    \cup {[status |-> 500, readable |-> TRUE, decodes |-> TRUE, envelope |-> e] :
            e \in {f \in Envelopes : f.Result.kind \in {"nil", "object"}}}
    \cup {[status |-> s, readable |-> rd, decodes |-> FALSE, envelope |-> NilResponse] :
            s \in HTTPStatuses, rd \in BOOLEAN}

MerchantData ==
    {[OrderID |-> "order-1", CardID |-> "card-1", Token |-> t, Amount |-> a] :
        t \in {"", "0123456789"}, a \in {Amt(0, 0), Amt(0, 150), Amt(0, 25000)}}

NoData == [OrderID |-> "", CardID |-> "", Token |-> "", Amount |-> NoAmount]

BatchItems ==
    {[isInt64 |-> FALSE, amount |-> NoAmount, isMap |-> TRUE, marshals |-> TRUE],
     [isInt64 |-> TRUE, amount |-> Amt(0, 0), isMap |-> TRUE, marshals |-> TRUE],
     [isInt64 |-> TRUE, amount |-> Amt(0, 10000), isMap |-> FALSE, marshals |-> TRUE],
     [isInt64 |-> TRUE, amount |-> Amt(0, 10000), isMap |-> TRUE, marshals |-> TRUE]}

BatchIDs == {"", "rcpt1", "r-missing"}

NoCall ==
    [name |-> "", amount |-> NoAmount, receiptID |-> "", token |-> "", marshals |-> TRUE,
     data |-> NoData, receipts |-> <<>>, receiptIDs |-> <<>>, state |-> 0,
     minAmount |-> NoAmount, maxAmount |-> NoAmount, withID |-> FALSE, timeout |-> <<>>]

(***************************************************************************)
(* The state machine.                                                      *)
(***************************************************************************)
Init ==
    /\ config \in Configs
    /\ client = NewClient(config)
    /\ call = NoCall
    /\ ctx = Background
    /\ clock = 0
    /\ pc = "idle"
    /\ inflight = NoRequest
    /\ sent = <<>>
    /\ pipe = NoPipe
    /\ local = NoLocal
    /\ ret = NoRet

\* The effect of a stretch of code that ended as st, after the requests in
\* before were dispatched.
Apply(st, before) ==
    /\ pc' = (CASE st.kind = "return" -> "done"
                [] st.kind = "panic" -> "panic"
                [] st.kind = "dispatch" -> "inflight")
    /\ ret' = st.ret
    /\ inflight' = st.req
    /\ sent' = (IF st.kind = "dispatch" THEN Append(before, st.req) ELSE before)
    /\ pipe' = st.pipe
    /\ local' = st.local

\* A caller invokes an operation on the idle client.
Start(cl, cx, st) ==
    /\ pc = "idle"
    /\ call' = cl
    /\ ctx' = cx
    /\ clock' = 0
    /\ Apply(st, <<>>)
    /\ UNCHANGED <<config, client>>

CreateReceipt ==
    \E cx \in CallerContexts, amount \in Amounts, marshals \in BOOLEAN :
        Start([NoCall EXCEPT !.name = "CreateReceipt", !.amount = amount,
                             !.marshals = marshals], cx,
              CreateReceiptBegin(client, cx, 0, NoPipe, NoLocal, amount, marshals))

PayReceipt ==
    \E cx \in CallerContexts, receiptID \in ReceiptIDs, token \in Tokens :
        Start([NoCall EXCEPT !.name = "PayReceipt", !.receiptID = receiptID,
                             !.token = token], cx,
              PayReceiptBegin(client, cx, 0, NoPipe, NoLocal, receiptID, token))

SendReceipt ==
    \E cx \in CallerContexts, receiptID \in ReceiptIDs :
        Start([NoCall EXCEPT !.name = "SendReceipt", !.receiptID = receiptID], cx,
              SendReceiptBegin(client, cx, 0, NoPipe, NoLocal, receiptID))

CancelReceipt ==
    \E cx \in CallerContexts, receiptID \in ReceiptIDs :
        Start([NoCall EXCEPT !.name = "CancelReceipt", !.receiptID = receiptID], cx,
              CancelReceiptBegin(client, cx, 0, NoPipe, NoLocal, receiptID))

CheckReceipt ==
    \E cx \in CallerContexts, receiptID \in ReceiptIDs :
        Start([NoCall EXCEPT !.name = "CheckReceipt", !.receiptID = receiptID], cx,
              CheckReceiptBegin(client, cx, 0, NoPipe, NoLocal, receiptID))

GetReceipt ==
    \E cx \in CallerContexts, receiptID \in ReceiptIDs :
        Start([NoCall EXCEPT !.name = "GetReceipt", !.receiptID = receiptID], cx,
              GetReceiptBegin(client, cx, 0, NoPipe, NoLocal, receiptID))

GetAllReceipts ==
    \E cx \in CallerContexts :
        Start([NoCall EXCEPT !.name = "GetAllReceipts"], cx,
              GetAllReceiptsBegin(client, cx, 0, NoPipe, NoLocal))

SetFiscalData ==
    \E cx \in CallerContexts, receiptID \in ReceiptIDs, marshals \in BOOLEAN :
        Start([NoCall EXCEPT !.name = "SetFiscalData", !.receiptID = receiptID,
                             !.marshals = marshals], cx,
              SetFiscalDataBegin(client, cx, 0, NoPipe, NoLocal, receiptID, marshals))

CreateAndPayReceipt ==
    \E cx \in CallerContexts, amount \in Amounts, marshals \in BOOLEAN, token \in Tokens :
        Start([NoCall EXCEPT !.name = "CreateAndPayReceipt", !.amount = amount,
                             !.marshals = marshals, !.token = token], cx,
              CreateAndPayReceiptBegin(client, cx, 0, NoPipe, NoLocal, amount, marshals, token))

CreateMerchantReceipt ==
    \E cx \in CallerContexts, data \in MerchantData :
        Start([NoCall EXCEPT !.name = "CreateMerchantReceipt", !.data = data], cx,
              CreateMerchantReceiptBegin(client, cx, 0, NoPipe, NoLocal, data))

PayMerchantReceipt ==
    \E cx \in CallerContexts, data \in MerchantData, id \in {"", "receipt-0001"} :
        Start([NoCall EXCEPT !.name = "PayMerchantReceipt", !.data = data,
                             !.receiptID = id], cx,
              PayMerchantReceiptBegin(client, cx, 0, NoPipe, NoLocal, data, id))

CreateAndPayMerchantReceipt ==
    \E cx \in CallerContexts, data \in MerchantData :
        Start([NoCall EXCEPT !.name = "CreateAndPayMerchantReceipt", !.data = data], cx,
              CreateMerchantReceiptBegin(client, cx, 0, NoPipe, NoLocal, data))

\* GetReceiptStatus and the three helpers over it start as CheckReceipt does;
\* its validation error comes back through GetReceiptStatusEnd.
StatusBegin(c, cx, receiptID) ==
    LET st == CheckReceiptBegin(c, cx, 0, NoPipe, NoLocal, receiptID)
    IN  IF st.kind = "return" THEN GetReceiptStatusEnd(st.ret, st.pipe, st.local) ELSE st

GetReceiptStatus ==
    \E cx \in CallerContexts, receiptID \in ReceiptIDs :
        Start([NoCall EXCEPT !.name = "GetReceiptStatus", !.receiptID = receiptID], cx,
              StatusBegin(client, cx, receiptID))

IsReceiptPaid ==
    \E cx \in CallerContexts, receiptID \in ReceiptIDs :
        Start([NoCall EXCEPT !.name = "IsReceiptPaid", !.receiptID = receiptID], cx,
              LET st == StatusBegin(client, cx, receiptID)
              IN  IF st.kind = "dispatch" THEN st ELSE IsReceiptEnd(st, 1))

IsReceiptCanceled ==
    \E cx \in CallerContexts, receiptID \in ReceiptIDs :
        Start([NoCall EXCEPT !.name = "IsReceiptCanceled", !.receiptID = receiptID], cx,
              LET st == StatusBegin(client, cx, receiptID)
              IN  IF st.kind = "dispatch" THEN st ELSE IsReceiptEnd(st, -1))

IsReceiptExpired ==
    \E cx \in CallerContexts, receiptID \in ReceiptIDs :
        Start([NoCall EXCEPT !.name = "IsReceiptExpired", !.receiptID = receiptID], cx,
              LET st == StatusBegin(client, cx, receiptID)
              IN  IF st.kind = "dispatch" THEN st ELSE IsReceiptEnd(st, -2))

CreateMultipleReceipts ==
    \E cx \in CallerContexts, receipts \in SeqsUpTo(BatchItems, MaxBatch) :
        Start([NoCall EXCEPT !.name = "CreateMultipleReceipts", !.receipts = receipts], cx,
              CreateMultipleReceiptsFrom(client, cx, 0, NoPipe, NoLocal, receipts, 1))

CancelMultipleReceipts ==
    \E cx \in CallerContexts, receiptIDs \in SeqsUpTo(BatchIDs, MaxBatch) :
        Start([NoCall EXCEPT !.name = "CancelMultipleReceipts", !.receiptIDs = receiptIDs], cx,
              CancelMultipleReceiptsFrom(client, cx, 0, NoPipe, NoLocal, receiptIDs, 1))

\* GetReceiptsByDateRange (src/receipts.go, lines 209-214) is GetAllReceipts
\* with the two times converted.
GetReceiptsByDateRange ==
    \E cx \in CallerContexts :
        Start([NoCall EXCEPT !.name = "GetReceiptsByDateRange"], cx,
              GetAllReceiptsBegin(client, cx, 0, NoPipe, NoLocal))

GetReceiptsByState ==
    \E cx \in CallerContexts, state \in ReceiptStates :
        Start([NoCall EXCEPT !.name = "GetReceiptsByState", !.state = state], cx,
              GetAllReceiptsBegin(client, cx, 0, NoPipe, NoLocal))

GetReceiptsByAmountRange ==
    \E cx \in CallerContexts, minAmount \in {Amt(0, 0), Amt(0, 500)},
       maxAmount \in {Amt(0, 500), Amt(0, 10000)} :
        Start([NoCall EXCEPT !.name = "GetReceiptsByAmountRange",
                             !.minAmount = minAmount, !.maxAmount = maxAmount], cx,
              GetAllReceiptsBegin(client, cx, 0, NoPipe, NoLocal))

\* sendRequest called on its own by code of the package (src/README.md, lines
\* 518-524), with either form of authentication and with or without a
\* timeout of its own.  The *Response it returns is pipe.resp.
TimeoutOverrides == {<<>>, <<3>>}

sendRequestBegin(c, cx, now, token, withID, timeout) ==
    LET b == sendRequestBuild(c, cx, now, GenerateRequestID("CardsCheck", now),
                              "cards.check", Params("", token, NoAmount, <<>>),
                              TRUE, withID, timeout)
    IN  IF b.err # NoErr
        THEN ReturnStep(Ret(NilTyped, b.err), BuildFailed(b.err), NoLocal)
        ELSE DispatchStep(b.req, NoPipe, NoLocal)

SendRequest ==
    \E cx \in CallerContexts, withID \in BOOLEAN, timeout \in TimeoutOverrides :
        Start([NoCall EXCEPT !.name = "sendRequest", !.token = "0123456789",
                             !.withID = withID, !.timeout = timeout], cx,
              sendRequestBegin(client, cx, 0, "0123456789", withID, timeout))

\* An operation that sends the request a second time when its first attempt
\* failed.
Continue_RetriesOnce(c, cl, cx, now, p, l, method) ==
    IF p.err # NoErr /\ p.dispatched /\ p.req.at = 0
    THEN DispatchStep([p.req EXCEPT !.at = now], p, l)
    ELSE
        CASE cl.name \in {"CreateReceipt", "PayReceipt", "SendReceipt", "CancelReceipt",
                          "CheckReceipt", "GetReceipt", "SetFiscalData"} ->
                 ReturnStep(ReceiptEnd(p), p, l)
          [] cl.name \in {"GetAllReceipts", "GetReceiptsByDateRange"} ->
                 ReturnStep(GetAllReceiptsEnd(p), p, l)
          [] cl.name = "CreateAndPayReceipt" ->
                 CreateAndPayReceiptContinue(c, cx, now, p, l, method, cl.token)
          [] cl.name = "sendRequest" -> ReturnStep(Ret(NilTyped, p.err), p, l)
          [] cl.name = "CreateMerchantReceipt" -> CreateMerchantReceiptEnd(p, l)
          [] cl.name = "PayMerchantReceipt" -> PayMerchantReceiptEnd(p, l)
          [] cl.name = "CreateAndPayMerchantReceipt" ->
                 CreateAndPayMerchantReceiptContinue(c, cx, now, p, l, method, cl.data)
          [] cl.name = "GetReceiptStatus" -> GetReceiptStatusEnd(ReceiptEnd(p), p, l)
          [] cl.name \in {"IsReceiptPaid", "IsReceiptCanceled", "IsReceiptExpired"} ->
                 IsReceiptEnd(GetReceiptStatusEnd(ReceiptEnd(p), p, l), WantedState(cl.name))
          [] cl.name = "CreateMultipleReceipts" ->
                 CreateMultipleReceiptsContinue(c, cx, now, p, l, cl.receipts)
          [] cl.name = "CancelMultipleReceipts" ->
                 CancelMultipleReceiptsFrom(c, cx, now, p, l, cl.receiptIDs, l.i + 1)
          [] cl.name = "GetReceiptsByState" ->
                 GetReceiptsByStateEnd(GetAllReceiptsEnd(p), p, l, cl.state)
          [] cl.name = "GetReceiptsByAmountRange" ->
                 GetReceiptsByAmountRangeEnd(GetAllReceiptsEnd(p), p, l,
                                             cl.minAmount, cl.maxAmount)

\* The rest of the operation cl once sendRequest has returned p for the
\* request of the given method.
Continue(c, cl, cx, now, p, l, method) ==
    CASE cl.name \in {"CreateReceipt", "PayReceipt", "SendReceipt", "CancelReceipt",
                      "CheckReceipt", "GetReceipt", "SetFiscalData"} ->
             ReturnStep(ReceiptEnd(p), p, l)
      [] cl.name \in {"GetAllReceipts", "GetReceiptsByDateRange"} ->
             ReturnStep(GetAllReceiptsEnd(p), p, l)
      [] cl.name = "CreateAndPayReceipt" ->
             CreateAndPayReceiptContinue(c, cx, now, p, l, method, cl.token)
      [] cl.name = "sendRequest" -> ReturnStep(Ret(NilTyped, p.err), p, l)
      [] cl.name = "CreateMerchantReceipt" -> CreateMerchantReceiptEnd(p, l)
      [] cl.name = "PayMerchantReceipt" -> PayMerchantReceiptEnd(p, l)
      [] cl.name = "CreateAndPayMerchantReceipt" ->
             CreateAndPayMerchantReceiptContinue(c, cx, now, p, l, method, cl.data)
      [] cl.name = "GetReceiptStatus" -> GetReceiptStatusEnd(ReceiptEnd(p), p, l)
      [] cl.name \in {"IsReceiptPaid", "IsReceiptCanceled", "IsReceiptExpired"} ->
             IsReceiptEnd(GetReceiptStatusEnd(ReceiptEnd(p), p, l), WantedState(cl.name))
      [] cl.name = "CreateMultipleReceipts" ->
             CreateMultipleReceiptsContinue(c, cx, now, p, l, cl.receipts)
      [] cl.name = "CancelMultipleReceipts" ->
             CancelMultipleReceiptsFrom(c, cx, now, p, l, cl.receiptIDs, l.i + 1)
      [] cl.name = "GetReceiptsByState" ->
             GetReceiptsByStateEnd(GetAllReceiptsEnd(p), p, l, cl.state)
      [] cl.name = "GetReceiptsByAmountRange" ->
             GetReceiptsByAmountRangeEnd(GetAllReceiptsEnd(p), p, l,
                                         cl.minAmount, cl.maxAmount)

\* HTTPClient.Do returns for the request in flight, and the operation runs
\* on to its return, its panic or its next dispatch.
HTTPClientDo ==
    /\ pc = "inflight"
    /\ \E lat \in Latencies, fails \in BOOLEAN :
         \E end \in DoOutcomes(inflight.ctx, inflight.at, client.HTTPClientTimeout,
                               lat, fails) :
            \E answer \in (IF end.err = NoErr THEN Answers ELSE {NoAnswer}) :
               LET do == [at |-> end.at, err |-> end.err, answer |-> answer]
               IN  /\ clock' = do.at
                   /\ Apply(Continue(client, call, ctx, do.at,
                                     Piped(inflight, do, sendRequestFinish(do)), local,
                                     inflight.method),
                            sent)
                   /\ UNCHANGED <<config, client, call, ctx>>

\* The caller takes what the operation returned; the client is ready for
\* the next call.
Return ==
    /\ pc = "done"
    /\ pc' = "idle"
    /\ call' = NoCall
    /\ ctx' = Background
    /\ clock' = 0
    /\ inflight' = NoRequest
    /\ sent' = <<>>
    /\ pipe' = NoPipe
    /\ local' = NoLocal
    /\ ret' = NoRet
    /\ UNCHANGED <<config, client>>

Next ==
    \/ CreateReceipt
    \/ PayReceipt
    \/ SendReceipt
    \/ CancelReceipt
    \/ CheckReceipt
    \/ GetReceipt
    \/ GetAllReceipts
    \/ SetFiscalData
    \/ CreateAndPayReceipt
    \/ CreateMerchantReceipt
    \/ PayMerchantReceipt
    \/ CreateAndPayMerchantReceipt
    \/ GetReceiptStatus
    \/ IsReceiptPaid
    \/ IsReceiptCanceled
    \/ IsReceiptExpired
    \/ CreateMultipleReceipts
    \/ CancelMultipleReceipts
    \/ GetReceiptsByDateRange
    \/ GetReceiptsByState
    \/ GetReceiptsByAmountRange
    \/ SendRequest
    \/ HTTPClientDo
    \/ Return

Spec == Init /\ [][Next]_vars

(***************************************************************************)
(* Concurrent use of one client.  Several callers (goroutines) invoke      *)
(* operations on the same *Client; their invocations, the returns of       *)
(* HTTPClient.Do and their returns interleave in any order.  Under this    *)
(* specification call, ctx, clock, pc, inflight, sent, pipe, local and ret *)
(* hold one value per caller, and time is counted per call.  The client is *)
(* the one value all callers share.                                        *)
(***************************************************************************)
Callers == 1..MaxCallers

\* The fields of the client after a call of sendRequest with the given
\* timeout argument: sendRequest copies c.Timeout or timeout[0] into the
\* local requestTimeout and assigns no field of c (src/README.md, 518-594).
ClientAfterSendRequest_StoresTimeout(c, timeout) ==
    IF Len(timeout) > 0 THEN [c EXCEPT !.Timeout = timeout[1]] ELSE c

ClientAfterSendRequest(c, timeout) == c

\* What the callers invoke: a receipt operation with a receipt id, one with
\* an amount, and sendRequest itself with id-only authentication and a
\* timeout of its own.
ConcurrentCalls ==
    {[NoCall EXCEPT !.name = "CheckReceipt", !.receiptID = "rcpt1"],
     [NoCall EXCEPT !.name = "CreateReceipt", !.amount = Amt(0, 10000)],
     [NoCall EXCEPT !.name = "sendRequest", !.token = "0123456789", !.withID = TRUE,
                    !.timeout = <<3>>]}

ConcurrentContexts == {Background, [deadline |-> {}, cancelAt |-> {5}]}

ConcurrentLatencies == {1, 31}

ConcurrentAnswers ==
    {[status |-> 200, readable |-> TRUE, decodes |-> TRUE, envelope |-> e] :
        e \in {MkResponse(ObjectResult(MkReceipt("receipt-0001", 0, Amt(0, 10000))), NilError),
               MkResponse(NilResult, NilError),
               MkResponse(NilResult, MkError(ReceiptNotFoundErrorCode, "gateway message"))}}
    \cup {[status |-> 500, readable |-> TRUE, decodes |-> FALSE, envelope |-> NilResponse]}

ConcurrentBegin(c, cl, cx) ==
    CASE cl.name = "CheckReceipt" ->
             CheckReceiptBegin(c, cx, 0, NoPipe, NoLocal, cl.receiptID)
      [] cl.name = "CreateReceipt" ->
             CreateReceiptBegin(c, cx, 0, NoPipe, NoLocal, cl.amount, cl.marshals)
      [] cl.name = "sendRequest" ->
             sendRequestBegin(c, cx, 0, cl.token, cl.withID, cl.timeout)

InitConcurrent ==
    /\ config \in Configs
    /\ client = NewClient(config)
    /\ call = [k \in Callers |-> NoCall]
    /\ ctx = [k \in Callers |-> Background]
    /\ clock = [k \in Callers |-> 0]
    /\ pc = [k \in Callers |-> "idle"]
    /\ inflight = [k \in Callers |-> NoRequest]
    /\ sent = [k \in Callers |-> <<>>]
    /\ pipe = [k \in Callers |-> NoPipe]
    /\ local = [k \in Callers |-> NoLocal]
    /\ ret = [k \in Callers |-> NoRet]

\* The effect on caller k of a stretch of its operation that ended as st.
ApplyTo(k, st) ==
    /\ pc' = [pc EXCEPT ![k] = (CASE st.kind = "return" -> "done"
                                  [] st.kind = "panic" -> "panic"
                                  [] st.kind = "dispatch" -> "inflight")]
    /\ ret' = [ret EXCEPT ![k] = st.ret]
    /\ inflight' = [inflight EXCEPT ![k] = st.req]
    /\ sent' = [sent EXCEPT ![k] = IF st.kind = "dispatch" THEN Append(@, st.req) ELSE @]
    /\ pipe' = [pipe EXCEPT ![k] = st.pipe]
    /\ local' = [local EXCEPT ![k] = st.local]

\* Caller k invokes an operation: it runs up to the dispatch of its request
\* (or to its return) on the client as it is at that moment.
Invoke(k) ==
    /\ pc[k] = "idle"
    /\ \E cl \in ConcurrentCalls, cx \in ConcurrentContexts :
          /\ call' = [call EXCEPT ![k] = cl]
          /\ ctx' = [ctx EXCEPT ![k] = cx]
          /\ clock' = [clock EXCEPT ![k] = 0]
          /\ ApplyTo(k, ConcurrentBegin(client, cl, cx))
          /\ client' = ClientAfterSendRequest(client, cl.timeout)
          /\ UNCHANGED config

\* HTTPClient.Do returns to caller k, whose operation runs on to its return.
Deliver(k) ==
    /\ pc[k] = "inflight"
    /\ \E lat \in ConcurrentLatencies, fails \in BOOLEAN :
         \E end \in DoOutcomes(inflight[k].ctx, inflight[k].at, client.HTTPClientTimeout,
                               lat, fails) :
            \E answer \in (IF end.err = NoErr THEN ConcurrentAnswers ELSE {NoAnswer}) :
               LET do == [at |-> end.at, err |-> end.err, answer |-> answer]
               IN  /\ clock' = [clock EXCEPT ![k] = do.at]
                   /\ ApplyTo(k, Continue(client, call[k], ctx[k], do.at,
                                          Piped(inflight[k], do, sendRequestFinish(do)),
                                          local[k], inflight[k].method))
                   /\ UNCHANGED <<config, client, call, ctx>>

\* Caller k takes what its operation returned.
Collect(k) ==
    /\ pc[k] = "done"
    /\ pc' = [pc EXCEPT ![k] = "idle"]
    /\ call' = [call EXCEPT ![k] = NoCall]
    /\ ctx' = [ctx EXCEPT ![k] = Background]
    /\ clock' = [clock EXCEPT ![k] = 0]
    /\ inflight' = [inflight EXCEPT ![k] = NoRequest]
    /\ sent' = [sent EXCEPT ![k] = <<>>]
    /\ pipe' = [pipe EXCEPT ![k] = NoPipe]
    /\ local' = [local EXCEPT ![k] = NoLocal]
    /\ ret' = [ret EXCEPT ![k] = NoRet]
    /\ UNCHANGED <<config, client>>

NextConcurrent ==
    \/ \E k \in Callers : Invoke(k)
    \/ \E k \in Callers : Deliver(k)
    \/ \E k \in Callers : Collect(k)

SpecConcurrent == InitConcurrent /\ [][NextConcurrent]_vars

(***************************************************************************)
(* Properties.                                                             *)
(***************************************************************************)
\* The last call of sendRequest got a response whose body decoded.
Decoded ==
    /\ pipe.dispatched
    /\ pipe.do.err = NoErr
    /\ pipe.do.answer.readable
    /\ pipe.do.answer.decodes

DecodedEnvelope == pipe.do.answer.envelope

\* The kind the error table lists for each of its codes.
TableKind(code) ==
    CASE code = -31611 -> ErrInvalidAmount
      [] code = -32602 -> ErrInvalidParams
      [] code = -31401 -> ErrReceiptNotFound
      [] code = -31402 -> ErrReceiptAlreadyPaid
      [] code = -31403 -> ErrReceiptExpired
      [] code = -31400 -> ErrCardNotFound
      [] code = -31300 -> ErrCardNotFound
      [] code = -32500 -> ErrInvalidFormatToken
      [] code = -31301 -> ErrCardExpired
      [] code = -31630 -> ErrP2PIdenticalCards
      [] code = -31001 -> ErrPaycomServiceNotAvailable
      [] code = -31002 -> ErrProcessingCenterNotAvailable
      [] code = -32504 -> ErrPermissionDenied
      [] code = -32700 -> ErrParseError
      [] code = -32601 -> ErrMethodNotFound
      [] code = -32600 -> ErrInvalidRequest

\* C1: a decoded response whose error carries a code of the error table
\* makes sendRequest return the kind the table lists for that code.
C1_TableCodeYieldsTableKind ==
    (Decoded /\ ~DecodedEnvelope.Error.nil /\ DecodedEnvelope.Error.Code \in TableCodes)
        => pipe.err = TableKind(DecodedEnvelope.Error.Code)

\* kindOf and codeOf of the round trip.
kindOf(code) == handleErrorResponse(MkResponse(NilResult, MkError(code, ""))).err

codeOf(kind) == GetErrorCode(kind)

\* C2: for a table code c that a decoded response carried, the kind that
\* sendRequest returned is defined, its code maps back to the same kind, and
\* that code is c itself unless c is one of the two CardNotFound codes.
C2_ErrorCodeRoundTrip ==
    (Decoded /\ ~DecodedEnvelope.Error.nil /\ DecodedEnvelope.Error.Code \in TableCodes)
        => LET c == DecodedEnvelope.Error.Code
               k == pipe.err
           IN  /\ k # NoErr
               /\ kindOf(codeOf(k)) = k
               /\ (c \notin {-31400, -31300} => codeOf(k) = c)

\* C3: a decoded envelope without an error field comes back with a nil error,
\* whatever the HTTP status was.
C3_NoErrorFieldNoError ==
    (Decoded /\ DecodedEnvelope.Error.nil)
        => /\ pipe.err = NoErr
           /\ ~pipe.resp.nil
           /\ pipe.resp = DecodedEnvelope

C3_Witness ==
    /\ Decoded
    /\ DecodedEnvelope.Error.nil
    /\ pipe.do.answer.status = 500
    /\ pipe.err = NoErr
    /\ pc = "done"
    /\ ret.err = NoErr

\* C4 as stated: an error field, whatever its code (0 included), comes back
\* as the envelope and a non-nil error, and a nil error means no error field.
C4_ErrorFieldAlwaysError ==
    Decoded => /\ pipe.resp = DecodedEnvelope
               /\ (~DecodedEnvelope.Error.nil <=> pipe.err # NoErr)

\* C4 amended: an error field with a non-zero code comes back as the
\* envelope and a non-nil error; the error is nil exactly when the error
\* field is absent or carries code 0.
C4_NonZeroCodeIsError ==
    Decoded => /\ pipe.resp = DecodedEnvelope
               /\ ((~DecodedEnvelope.Error.nil /\ DecodedEnvelope.Error.Code # 0)
                     <=> pipe.err # NoErr)

C4_Witness ==
    /\ Decoded
    /\ ~DecodedEnvelope.Error.nil
    /\ DecodedEnvelope.Error.Code = 12345
    /\ pipe.err = ErrPaymeError
    /\ pipe.resp = DecodedEnvelope

\* The timeout of a call: the one given with the call itself, else the
\* configured one, or 30 seconds when none was.
ConfiguredTimeout ==
    IF call.timeout # <<>> THEN call.timeout[1]
    ELSE IF config.Timeout = 0 THEN 30 ELSE config.Timeout

\* How long the last exchange lasted.
Elapsed == pipe.do.at - pipe.req.at

\* HTTPClient.Do gave up because a deadline passed / because the caller
\* cancelled.
DeadlinePassed == pipe.dispatched /\ ErrorsIs(pipe.do.err, DeadlineExceeded)

CallerCancelled == pipe.dispatched /\ ErrorsIs(pipe.do.err, Canceled)

ReceiptOperations ==
    {"CreateReceipt", "PayReceipt", "SendReceipt", "CancelReceipt", "CheckReceipt",
     "GetReceipt", "GetAllReceipts", "SetFiscalData"}

\* C5: no exchange outlives the call's timeout (30 seconds when none was
\* configured); an exchange that ends because the timeout elapsed makes
\* sendRequest, and the receipt operation, return ErrTimeout itself; every
\* other transport failure comes back as an error wrapping its cause, never
\* as ErrTimeout.
C5_TimeoutIsErrTimeout ==
    pipe.dispatched =>
        /\ Elapsed <= ConfiguredTimeout
        /\ DeadlinePassed => (pipe.err = ErrTimeout /\ pipe.resp.nil)
        /\ (DeadlinePassed /\ pc = "done" /\ call.name \in ReceiptOperations)
              => (ret.err = ErrTimeout /\ ret.resp.nil)
        /\ (pipe.err = ErrTimeout /\ ctx.deadline = {}) => Elapsed = ConfiguredTimeout
        /\ (pipe.do.err # NoErr /\ ~DeadlinePassed)
              => /\ pipe.err # ErrTimeout
                 /\ ~ErrorsIs(pipe.err, ErrTimeout)
                 /\ pipe.err = Errorf("http request error", "%w", pipe.do.err)
                 /\ ErrorsIs(pipe.err, Sentinel(pipe.do.err.base))
                 /\ pipe.resp.nil

C5_Witness ==
    /\ config.Timeout = 0
    /\ ctx = Background
    /\ call.name = "CheckReceipt"
    /\ pc = "done"
    /\ DeadlinePassed
    /\ Elapsed = 30
    /\ ret.err = ErrTimeout

C6_WitnessCallerDeadline ==
    /\ ctx.deadline = {5}
    /\ DeadlinePassed
    /\ pipe.do.at = 5
    /\ pipe.err = ErrTimeout

\* CreateAndPayReceipt returned after its create step succeeded and its pay
\* step failed: createResp is set, and err holds what PayReceipt returned.
PayStepFailed ==
    /\ call.name = "CreateAndPayReceipt"
    /\ pc = "done"
    /\ ~local.createResp.nil
    /\ local.err # NoErr

C8_PayOnlyAfterCreate ==
    call.name \in {"CreateAndPayReceipt", "CreateAndPayMerchantReceipt"} =>
        /\ \A i \in DOMAIN sent : sent[i].method # "receipts.cancel"
        /\ Len(sent) <= 2
        /\ Len(sent) >= 1 => sent[1].method = "receipts.create"
        /\ Len(sent) = 2 => sent[2].method = "receipts.pay"
        /\ (pc = "inflight" /\ inflight.method = "receipts.pay")
              => /\ inflight = sent[2]
                 /\ pipe.req = sent[1]
                 /\ Decoded
                 /\ pipe.err = NoErr
                 /\ DecodedEnvelope.Result.kind = "object"
                 /\ ~DecodedEnvelope.Result.receipt.nil
                 /\ inflight.params.id = DecodedEnvelope.Result.receipt.ID
                 /\ inflight.at = pipe.do.at

C8_Witness ==
    /\ call.name = "CreateAndPayMerchantReceipt"
    /\ pc = "inflight"
    /\ Len(sent) = 2
    /\ inflight.method = "receipts.pay"
    /\ inflight.params.id = "receipt-0001"

\* C9: no operation ends in a panic.
C9_NoOperationPanics == pc # "panic"

\* The validation rules as the specification words them.
InvalidAmount(a) == AmtLeqZero(a) \/ AmtGreater(a, Amt(999999, 999999))

InvalidToken(t) == t = "" \/ Len(t) < 10 \/ Len(t) > 100

InvalidID(id) == id = "" \/ Len(id) < 5 \/ Len(id) > 100

\* The operation returned e and a nil response without reaching sendRequest.
Rejected(e) ==
    /\ pc = "done"
    /\ ret.err = e
    /\ ret.resp.nil
    /\ sent = <<>>
    /\ inflight = NoRequest
    /\ ~pipe.called

\* C10: CreateReceipt with an invalid amount, PayReceipt with an invalid
\* token, and PayReceipt, SendReceipt, CancelReceipt, CheckReceipt, GetReceipt
\* and SetFiscalData with an invalid receipt id return the rule's error with
\* a nil response, and nothing has been dispatched.
C10_InvalidArgumentNoDispatch ==
    /\ (call.name = "CreateReceipt" /\ InvalidAmount(call.amount))
          => Rejected(ErrInvalidAmount)
    /\ (/\ call.name \in {"PayReceipt", "SendReceipt", "CancelReceipt", "CheckReceipt",
                          "GetReceipt", "SetFiscalData"}
        /\ InvalidID(call.receiptID))
          => Rejected(ErrReceiptNotFound)
    /\ (call.name = "PayReceipt" /\ ~InvalidID(call.receiptID) /\ InvalidToken(call.token))
          => Rejected(ErrInvalidFormatToken)

C10_Witness ==
    /\ call.name = "PayReceipt"
    /\ call.receiptID = "r-missing"
    /\ call.token = "tok9chars"
    /\ Rejected(ErrInvalidFormatToken)

\* sendRequest was called and failed.
PipelineFailed == pipe.called /\ pipe.err # NoErr

\* C11: a receipt operation whose call of sendRequest failed returns a nil
\* response and the very error sendRequest returned; CheckReceipt of a
\* well-formed id answered with the gateway error -31401 returns
\* ErrReceiptNotFound.
C11_PipelineErrorUnmodified ==
    /\ (call.name \in ReceiptOperations /\ pc = "done" /\ PipelineFailed)
          => /\ ret.resp.nil
             /\ ret.err = pipe.err
             /\ Len(sent) <= 1
    /\ (/\ call.name = "CheckReceipt"
        /\ pc = "done"
        /\ Decoded
        /\ ~DecodedEnvelope.Error.nil
        /\ DecodedEnvelope.Error.Code = -31401)
          => /\ ret.err = ErrReceiptNotFound
             /\ ret.resp.nil

C11_Witness ==
    /\ call.name = "CheckReceipt"
    /\ call.receiptID = "r-missing"
    /\ pc = "done"
    /\ Decoded
    /\ DecodedEnvelope.Error = MkError(-31401, "gateway message")
    /\ ret.err = ErrReceiptNotFound
    /\ ret.resp.nil

MerchantOperations ==
    {"CreateMerchantReceipt", "PayMerchantReceipt", "CreateAndPayMerchantReceipt"}

\* sendRequest returned one of the sentinel errors themselves: a kind mapped
\* from a gateway code, or ErrTimeout.
PipelineReturnedKind == PipelineFailed /\ pipe.err.layers = <<>>

\* C12: when sendRequest returns a gateway-mapped kind or ErrTimeout to one
\* of the merchant operations, the operation returns an error that is, or
\* wraps, that sentinel.
C12_MerchantErrorKeepsKind ==
    (call.name \in MerchantOperations /\ pc \in {"done", "panic"} /\ PipelineReturnedKind)
        => /\ pc = "done"
           /\ ErrorsIs(ret.err, pipe.err)

\* C13: a decoded error with a non-zero code always resolves to a kind; a
\* code outside the table resolves to ErrPaymeError; and the kind is the one
\* every error detail with the same code resolves to, whatever its message,
\* data and origin.
C13_CodeDecidesKind ==
    (Decoded /\ ~DecodedEnvelope.Error.nil /\ DecodedEnvelope.Error.Code # 0)
        => /\ pipe.err # NoErr
           /\ pipe.err.layers = <<>>
           /\ DecodedEnvelope.Error.Code \notin TableCodes => pipe.err = ErrPaymeError
           /\ \A e \in Envelopes :
                 (~e.Error.nil /\ e.Error.Code = DecodedEnvelope.Error.Code)
                    => handleErrorResponse(e).err = pipe.err

C13_Witness ==
    /\ Decoded
    /\ DecodedEnvelope.Error = MkErrorDetail(12345, "not found", "receipt", "receipts.check")
    /\ pipe.err = ErrPaymeError
    /\ pc = "done"

\* The operations that call sendRequest once.
SingleExchangeOperations ==
    ReceiptOperations \cup
    {"CreateMerchantReceipt", "PayMerchantReceipt", "GetReceiptStatus", "IsReceiptPaid",
     "IsReceiptCanceled", "IsReceiptExpired", "GetReceiptsByDateRange",
     "GetReceiptsByState", "GetReceiptsByAmountRange", "sendRequest"}

\* C14: an operation that calls sendRequest once dispatches at most one
\* request, and once that exchange has failed nothing is in flight any more;
\* a create-then-pay workflow dispatches at most one receipts.create and one
\* receipts.pay; a batch helper dispatches at most one request per item.
C14_AtMostOneDispatchPerCall ==
    /\ call.name \in SingleExchangeOperations
          => /\ Len(sent) <= 1
             /\ (pipe.dispatched /\ pipe.err # NoErr)
                   => (pc \in {"done", "panic"} /\ inflight = NoRequest /\ sent = <<pipe.req>>)
    /\ call.name \in {"CreateAndPayReceipt", "CreateAndPayMerchantReceipt"}
          => /\ Len(sent) <= 2
             /\ \A i, j \in DOMAIN sent : i # j => sent[i].method # sent[j].method
             /\ (pipe.dispatched /\ pipe.err # NoErr)
                   => (pc \in {"done", "panic"} /\ inflight = NoRequest)
    /\ call.name \in {"CreateMultipleReceipts", "CancelMultipleReceipts"}
          => Len(sent) <= local.i
    /\ pc = "inflight" => inflight = sent[Len(sent)]

C14_Witness ==
    /\ call.name = "PayReceipt"
    /\ pc = "done"
    /\ pipe.dispatched
    /\ pipe.err = ErrTimeout
    /\ ret.err = ErrTimeout
    /\ Len(sent) = 1
    /\ inflight = NoRequest

\* The two forms of the X-Auth header, from the credentials NewClient got.
IDOnlyAuth == config.PaymeID

KeyAndIDAuth == config.PaymeID \o ":" \o config.PaymeKey

\* C15: a request dispatched by a call of sendRequest with useIdOnlyAuth set
\* carries the merchant id alone as X-Auth; every other request, those of the
\* eight receipt operations among them, carries "id:key".
C15_XAuthForm ==
    \A i \in DOMAIN sent :
        /\ (call.name = "sendRequest" /\ call.withID) => sent[i].xAuth = IDOnlyAuth
        /\ (call.name = "sendRequest" /\ ~call.withID) => sent[i].xAuth = KeyAndIDAuth
        /\ call.name \in ReceiptOperations => sent[i].xAuth = KeyAndIDAuth
        /\ call.name # "sendRequest" => sent[i].xAuth = KeyAndIDAuth
        /\ IDOnlyAuth # KeyAndIDAuth

C15_Witness ==
    /\ call.name = "sendRequest"
    /\ call.withID
    /\ config.PaymeID = "merchant-2"
    /\ pc = "done"
    /\ Len(sent) = 1
    /\ sent[1].xAuth = "merchant-2"

\* The ids of CancelMultipleReceipts and the amounts of CreateMultipleReceipts
\* that get as far as a request, in input order.
AttemptedIDs == SelectSeq(call.receiptIDs, LAMBDA id : ~InvalidID(id))

AttemptedAmounts ==
    LET items == SelectSeq(call.receipts,
                           LAMBDA r : r.isInt64 /\ r.isMap /\ r.marshals
                                      /\ ~InvalidAmount(r.amount))
    IN  [k \in DOMAIN items |-> items[k].amount]

\* C16: a batch helper never stops before the end of its input: it does not
\* panic, it returns only after every item had its turn, with a nil error,
\* and the requests it dispatched are those of the items, in input order.
C16_BatchBestEffort ==
    /\ call.name = "CancelMultipleReceipts"
          => /\ pc # "panic"
             /\ \A k \in DOMAIN sent :
                   /\ sent[k].method = "receipts.cancel"
                   /\ k <= Len(AttemptedIDs)
                   /\ sent[k].params.id = AttemptedIDs[k]
             /\ pc = "done"
                   => /\ ret.err = NoErr
                      /\ local.i = Len(call.receiptIDs) + 1
                      /\ URLParses(client.BaseURL) => Len(sent) = Len(AttemptedIDs)
    /\ call.name = "CreateMultipleReceipts"
          => /\ pc # "panic"
             /\ \A k \in DOMAIN sent :
                   /\ sent[k].method = "receipts.create"
                   /\ k <= Len(AttemptedAmounts)
                   /\ sent[k].params.amount = AttemptedAmounts[k]
             /\ pc = "done"
                   => /\ ret.err = NoErr
                      /\ local.i = Len(call.receipts) + 1
                      /\ URLParses(client.BaseURL) => Len(sent) = Len(AttemptedAmounts)

\* The zero value of a typed response: no receipt, no receipts.
ZeroTyped == [nil |-> FALSE, Receipt |-> NilReceipt, Receipts |-> <<>>]

\* C17: a receipt operation whose exchange brought back an envelope with
\* neither result nor error returns a non-nil, zero-valued typed response and
\* a nil error.
C17_AbsentResultIsZeroValue ==
    (/\ call.name \in ReceiptOperations
     /\ pc = "done"
     /\ Decoded
     /\ DecodedEnvelope.Error.nil
     /\ DecodedEnvelope.Result.kind = "nil")
        => /\ ret.err = NoErr
           /\ ~ret.resp.nil
           /\ ret.resp = ZeroTyped

C17_Witness ==
    /\ call.name = "SetFiscalData"
    /\ pc = "done"
    /\ Decoded
    /\ DecodedEnvelope = MkResponse(NilResult, NilError)
    /\ ret.err = NoErr
    /\ ret.resp = ZeroTyped

\* The operations that take an amount, and the amount the caller gave for
\* the k-th request of the operation in progress.
AmountOperations ==
    {"CreateReceipt", "CreateAndPayReceipt", "CreateMultipleReceipts",
     "CreateMerchantReceipt", "CreateAndPayMerchantReceipt"}

GivenAmount(k) ==
    CASE call.name \in {"CreateReceipt", "CreateAndPayReceipt"} -> call.amount
      [] call.name = "CreateMultipleReceipts" -> AttemptedAmounts[k]
      [] call.name \in {"CreateMerchantReceipt", "CreateAndPayMerchantReceipt"} ->
             call.data.Amount

\* minor is major times 100, limb by limb.
IsTimes100(major, minor) ==
    /\ minor.lo = (major.lo * 100) % (1000 * 1000)
    /\ minor.hi = major.hi * 100 + ((major.lo * 100) \div (1000 * 1000))

\* An amount is an integer held in limbs: the low limb is within its base.
IsInteger(a) == a.hi \in Int /\ a.lo \in 0..(1000 * 1000 - 1)

\* C18 as stated: the amount of every receipts.create request is 100 times
\* the amount the caller gave, in each of the five amount-taking operations.
C18_EveryAmountConverted ==
    call.name \in AmountOperations =>
        \A k \in DOMAIN sent :
            sent[k].method = "receipts.create"
                => /\ IsInteger(sent[k].params.amount)
                   /\ IsTimes100(GivenAmount(k), sent[k].params.amount)

\* C18 amended: every outbound amount is an integer; CreateMerchantReceipt
\* and CreateAndPayMerchantReceipt send 100 times the amount they were given;
\* CreateReceipt, CreateAndPayReceipt and CreateMultipleReceipts send the
\* amount they were given as it is, and only if it passes ValidateAmount.
C18_OnlyMerchantAmountConverted ==
    call.name \in AmountOperations =>
        \A k \in DOMAIN sent :
            sent[k].method = "receipts.create"
                => /\ IsInteger(sent[k].params.amount)
                   /\ call.name \in {"CreateMerchantReceipt", "CreateAndPayMerchantReceipt"}
                         => IsTimes100(GivenAmount(k), sent[k].params.amount)
                   /\ call.name \in {"CreateReceipt", "CreateAndPayReceipt",
                                     "CreateMultipleReceipts"}
                         => /\ sent[k].params.amount = GivenAmount(k)
                            /\ ~InvalidAmount(GivenAmount(k))

C18_Witness ==
    /\ call.name = "CreateMerchantReceipt"
    /\ call.data.Amount = Amt(0, 25000)
    /\ Len(sent) = 1
    /\ sent[1].method = "receipts.create"
    /\ sent[1].params.amount = Amt(2, 500000)
    /\ pc = "done"

\* 0 < a <= 999999999999, read off the limbs: a is positive, and its high
\* limb is below 10^6 (the low limb never reaches 10^6).
InRangeAmount(a) ==
    /\ a.hi > 0 \/ (a.hi = 0 /\ a.lo > 0)
    /\ a.hi < 1000 * 1000

\* C20: ValidateAmount accepts exactly the amounts a with
\* 0 < a <= 999999999999 and answers ErrInvalidAmount for every other one;
\* seen from CreateReceipt, which applies it to its argument first: an amount
\* in the range gets as far as sendRequest, any other is rejected with
\* ErrInvalidAmount.
C20_ValidateAmountRange ==
    call.name = "CreateReceipt" =>
        /\ InRangeAmount(call.amount)
              => /\ ValidateAmount(call.amount) = NoErr
                 /\ pipe.called \/ pc = "inflight"
                 /\ ~Rejected(ErrInvalidAmount)
        /\ ~InRangeAmount(call.amount)
              => /\ ValidateAmount(call.amount) = ErrInvalidAmount
                 /\ Rejected(ErrInvalidAmount)

C20_Witness ==
    /\ call.name = "CreateReceipt"
    /\ call.amount = Amt(999999, 999999)
    /\ pc = "inflight"
    /\ sent[1].params.amount = Amt(999999, 999999)

\* What the configuration given at construction fixes for every request.
FixedURL ==
    IF config.BaseURL # "" THEN config.BaseURL
    ELSE IF config.IsTestMode THEN "https://checkout.test.paycom.uz/api"
    ELSE "https://checkout.paycom.uz/api"

FixedTimeout == IF config.Timeout = 0 THEN 30 ELSE config.Timeout

\* The request that caller k's call asks for, from its own arguments and the
\* configuration: method, params, X-Auth, URL and the context it runs under.
OwnRequestOf(k, r) ==
    LET cl == call[k]
        timeout == IF cl.timeout # <<>> THEN cl.timeout[1] ELSE FixedTimeout
    IN  /\ r.url = FixedURL
        /\ r.xAuth = (IF cl.withID THEN config.PaymeID
                      ELSE config.PaymeID \o ":" \o config.PaymeKey)
        /\ r.ctx.deadline = ctx[k].deadline \cup {r.at + timeout}
        /\ r.ctx.cancelAt = ctx[k].cancelAt
        /\ r.method = (CASE cl.name = "CheckReceipt" -> "receipts.check"
                         [] cl.name = "CreateReceipt" -> "receipts.create"
                         [] cl.name = "sendRequest" -> "cards.check")
        /\ r.params = [id |-> cl.receiptID, token |-> cl.token, amount |-> cl.amount,
                       account |-> <<>>]

\* The outcome of caller k's call, from the answer to its own request.
OwnOutcomeOf(k) ==
    LET p == pipe[k]
        do == p.do
        failed == do.err # NoErr \/ ~do.answer.readable \/ ~do.answer.decodes
        e == do.answer.envelope
    IN  /\ \A t \in p.req.ctx.deadline \cup p.req.ctx.cancelAt : do.at <= t
        /\ failed => (p.resp.nil /\ p.err # NoErr /\ ret[k] = Ret(NilTyped, p.err))
        /\ ErrorsIs(do.err, DeadlineExceeded) => p.err = ErrTimeout
        /\ ~failed =>
              /\ p.resp = e
              /\ (e.Error.nil /\ call[k].name = "sendRequest") => ret[k] = NoRet
              /\ (e.Error.nil /\ call[k].name # "sendRequest")
                    => ret[k] = Ret([nil |-> FALSE, Receipt |-> e.Result.receipt,
                                     Receipts |-> <<>>], NoErr)
              /\ ~e.Error.nil => ret[k] = Ret(NilTyped, ErrReceiptNotFound)

\* C19: no operation changes a field of the client, and whatever the other
\* callers are doing, the request of each call is the one its own arguments
\* and the configuration ask for, and what it returns follows from the answer
\* to its own request.
C19_CallsIndependent ==
    /\ client = NewClient(config)
    /\ \A k \in Callers :
          /\ pc[k] = "inflight"
                => /\ OwnRequestOf(k, inflight[k])
                   /\ sent[k] = <<inflight[k]>>
          /\ (pc[k] = "done" /\ pipe[k].dispatched)
                => /\ OwnRequestOf(k, pipe[k].req)
                   /\ sent[k] = <<pipe[k].req>>
                   /\ OwnOutcomeOf(k)
          /\ pc[k] # "panic"

\* One caller has returned from sendRequest called with a timeout of its own
\* while another, who invoked CheckReceipt after it, is in flight under the
\* configured timeout.
C19_Witness ==
    /\ config.Timeout = 0
    /\ call[1].name = "sendRequest"
    /\ call[1].timeout = <<3>>
    /\ pc[1] = "done"
    /\ pipe[1].err = ErrTimeout
    /\ call[2].name = "CheckReceipt"
    /\ pc[2] = "inflight"
    /\ inflight[2].ctx.deadline = {30}
    /\ inflight[2].xAuth = "merchant-id:merchant-key"

\* The operation got past its validation: it reached sendRequest.
ReachedSendRequest == pipe.called \/ pc = "inflight"

\* C21: ValidateCardToken accepts exactly the tokens of 10 to 100
\* characters and answers ErrInvalidFormatToken for every other one, the
\* empty token included; seen from PayReceipt called with a well-formed
\* receipt id: a token of 10 to 100 characters gets as far as sendRequest,
\* any other is rejected with ErrInvalidFormatToken.
C21_ValidateCardTokenRange ==
    (call.name = "PayReceipt" /\ ValidateReceiptID(call.receiptID) = NoErr) =>
        LET n == Len(call.token)
        IN  /\ (10 <= n /\ n <= 100)
                  => /\ ValidateCardToken(call.token) = NoErr
                     /\ ReachedSendRequest
                     /\ ~Rejected(ErrInvalidFormatToken)
            /\ ~(10 <= n /\ n <= 100)
                  => /\ ValidateCardToken(call.token) = ErrInvalidFormatToken
                     /\ Rejected(ErrInvalidFormatToken)

C21_Witness ==
    /\ call.name = "PayReceipt"
    /\ call.receiptID = "rcpt1"
    /\ Len(call.token) = 10
    /\ pc = "inflight"
    /\ sent[1].params.token = call.token

\* C22: ValidateReceiptID answers ErrReceiptNotFound exactly for the empty
\* id and the ids shorter than 5 or longer than 100 characters; seen from
\* CheckReceipt: such an id is rejected with ErrReceiptNotFound, any other
\* gets as far as sendRequest.
C22_ValidateReceiptIDRange ==
    call.name = "CheckReceipt" =>
        LET n == Len(call.receiptID)
            bad == call.receiptID = "" \/ n < 5 \/ n > 100
        IN  /\ bad => /\ ValidateReceiptID(call.receiptID) = ErrReceiptNotFound
                      /\ Rejected(ErrReceiptNotFound)
            /\ ~bad => /\ ValidateReceiptID(call.receiptID) = NoErr
                       /\ ReachedSendRequest
                       /\ ~Rejected(ErrReceiptNotFound)

C22_Witness ==
    /\ call.name = "CheckReceipt"
    /\ Len(call.receiptID) = 101
    /\ Rejected(ErrReceiptNotFound)

\* C23: CreateAndPayReceipt called with a token that ValidateCardToken
\* rejects dispatches nothing (no receipts.create in particular) and returns
\* an error.
C23_TokenCheckedBeforeCreate ==
    (call.name = "CreateAndPayReceipt" /\ InvalidToken(call.token))
        => /\ sent = <<>>
           /\ pc = "done"
           /\ ret.err # NoErr
           /\ ret.resp.nil

\* sendRequest returned an error and a nil *Response.
PipelineFailedWithoutEnvelope == PipelineFailed /\ pipe.resp.nil

\* C24: when sendRequest returns an error and no envelope to
\* PayMerchantReceipt or CreateMerchantReceipt, the operation returns the
\* empty id and a non-nil error; it does not break on the absent envelope.
C24_MerchantSurvivesNilEnvelope ==
    (/\ call.name \in {"PayMerchantReceipt", "CreateMerchantReceipt"}
     /\ PipelineFailedWithoutEnvelope
     /\ pc \in {"done", "panic"})
        => /\ pc = "done"
           /\ ret.id = ""
           /\ ret.err # NoErr

\* The part of C24 that is about CreateMerchantReceipt.
C24_CreateMerchantSurvivesNilEnvelope ==
    (/\ call.name = "CreateMerchantReceipt"
     /\ PipelineFailedWithoutEnvelope
     /\ pc \in {"done", "panic"})
        => /\ pc = "done"
           /\ ret.id = ""
           /\ ret.err # NoErr

StatusHelpers == {"IsReceiptPaid", "IsReceiptCanceled", "IsReceiptExpired"}

\* The state each helper asks about.
AskedState ==
    CASE call.name = "IsReceiptPaid" -> 1
      [] call.name = "IsReceiptCanceled" -> -1
      [] call.name = "IsReceiptExpired" -> -2

\* The helper's exchange brought back a success envelope with a receipt.
CheckedReceipt ==
    /\ Decoded
    /\ pipe.err = NoErr
    /\ DecodedEnvelope.Result.kind = "object"
    /\ ~DecodedEnvelope.Result.receipt.nil

\* What C25 says of the calls that return.
HelperAnswersFromOwnCheck ==
    /\ Len(sent) <= 1
    /\ \A k \in DOMAIN sent :
          /\ sent[k].method = "receipts.check"
          /\ sent[k].params.id = call.receiptID
    /\ pc = "done" =>
          /\ URLParses(client.BaseURL) => Len(sent) = 1
          /\ CheckedReceipt
                => /\ ret.err = NoErr
                   /\ ret.flag <=> (DecodedEnvelope.Result.receipt.State = AskedState)
          /\ ret.err # NoErr => ~ret.flag
          /\ (pipe.called /\ pipe.err # NoErr) => (ret.err = pipe.err /\ ~ret.flag)
          /\ ret.flag => CheckedReceipt

\* C25: IsReceiptPaid, IsReceiptCanceled and IsReceiptExpired, called with
\* a well-formed id, dispatch one receipts.check request for that id and
\* return; they return true exactly when the state in the answer to that
\* request is 1, -1, -2 respectively, and false with the error when the
\* check failed.
C25_HelperFromOneFreshCheck ==
    (call.name \in StatusHelpers /\ ~InvalidID(call.receiptID))
        => /\ pc # "panic"
           /\ HelperAnswersFromOwnCheck

\* C25 but for the calls that panic.
C25_ReturningHelperFromOneFreshCheck ==
    (call.name \in StatusHelpers /\ ~InvalidID(call.receiptID))
        => HelperAnswersFromOwnCheck

FilterOperations == {"GetReceiptsByState", "GetReceiptsByAmountRange"}

\* a <= b on the limbs.
LimbsLeq(a, b) == a.hi < b.hi \/ (a.hi = b.hi /\ a.lo <= b.lo)

\* The receipt passes the filter of the operation in progress.
Wanted(receipt) ==
    IF call.name = "GetReceiptsByState" THEN receipt.State = call.state
    ELSE LimbsLeq(call.minAmount, receipt.Amount) /\ LimbsLeq(receipt.Amount, call.maxAmount)

\* GetAllReceipts succeeded, and the receipts it fetched.
FetchSucceeded ==
    /\ Decoded
    /\ pipe.err = NoErr
    /\ DecodedEnvelope.Result.kind \in {"nil", "array"}

Fetched == DecodedEnvelope.Result.items

\* What C26 says of the calls that return.
FilterReturnsMatchingFetched ==
    /\ Len(sent) <= 1
    /\ \A k \in DOMAIN sent : sent[k].method = "receipts.get_all"
    /\ pc = "done" =>
          /\ URLParses(client.BaseURL) => Len(sent) = 1
          /\ FetchSucceeded
                => /\ ret.err = NoErr
                   /\ ~ret.resp.nil
                   /\ ret.resp.Receipts = SelectSeq(Fetched, Wanted)
          /\ ~FetchSucceeded => (ret.err # NoErr /\ ret.resp.nil /\ ret.resp.Receipts = <<>>)
          /\ (pipe.called /\ pipe.err # NoErr) => ret.err = pipe.err

\* C26: GetReceiptsByState and GetReceiptsByAmountRange make one
\* GetAllReceipts call and return; when it succeeded they return the fetched
\* receipts of the requested state (of an amount within the two bounds, both
\* included), in fetch order and nothing else; when it failed they return
\* its error and no result.
C26_FilterOverOneFetch ==
    call.name \in FilterOperations
        => /\ pc # "panic"
           /\ FilterReturnsMatchingFetched

\* C26 but for the calls that panic.
C26_ReturningFilterOverOneFetch ==
    call.name \in FilterOperations => FilterReturnsMatchingFetched

====
